---- MODULE Spec2Model ----
(***************************************************************************)
(* The dependency-graph calculation engine (class CalculationEngine).      *)
(*                                                                         *)
(* JavaScript Map and Set iterate in insertion order, and the engine's     *)
(* traversals (detectCircularReferences, topologicalSort) depend on that   *)
(* order.  A Set is therefore a duplicate-free sequence, and the Map       *)
(* dependencyGraph is a record [keys, node]: keys is the insertion-ordered *)
(* sequence of addresses, node the function from the present addresses to  *)
(* their DependencyNode records.                                           *)
(***************************************************************************)
EXTENDS Integers, Sequences, FiniteSets, TLC

\* ------------------------------------------------------------------ bounds
\* Number of cell addresses of the sheet.
NumAddr == 3
\* Longest dependency list handed to registerCell (duplicates allowed).
MaxDeps == 2
\* Largest ceiling (maxIterations) an engine is constructed with; the smallest is 1.
MaxCeiling == 1
\* Number of engine calls (registerCell, removeCell, clear, markDirty, recalculate)
\* per behaviour.
MaxOps == 4
\* The last calls of a behaviour that are not registerCell calls (a registration is
\* always followed by a call that reads the graph it built).
ReadingCalls == 1
\* Number of recalculate calls per behaviour; each call has its own entry of `pass`.
MaxPasses == 2

\* Largest zero-based row and column of a spill range an evaluator returns.
MaxRow == 1
MaxCol == 1

AddrNames == <<"A1", "B1", "C1", "D1", "E1">>
Addr == {AddrNames[i] : i \in 1..NumAddr}

RECURSIVE ListsUpTo(_)
ListsUpTo(n) ==
  IF n = 0 THEN {<<>>}
  ELSE LET shorter == ListsUpTo(n - 1)
       IN shorter \cup {Append(l, a) : l \in {s \in shorter : Len(s) = n - 1}, a \in Addr}
DepLists == ListsUpTo(MaxDeps)

\* ------------------------------------------------ insertion-ordered Set
Range(s) == {s[i] : i \in 1..Len(s)}
SetHas(s, x) == x \in Range(s)
SetAdd(s, x) == IF SetHas(s, x) THEN s ELSE Append(s, x)
SetDelete(s, x) == SelectSeq(s, LAMBDA y : y # x)
RECURSIVE NewSet(_)
NewSet(list) ==
  IF list = <<>> THEN <<>>
  ELSE LET front == NewSet(SubSeq(list, 1, Len(list) - 1))
       IN SetAdd(front, list[Len(list)])
IndexOf(s, x) ==
  IF SetHas(s, x) THEN CHOOSE i \in 1..Len(s) : s[i] = x /\ \A j \in 1..(i - 1) : s[j] # x
  ELSE 0

\* ------------------------------------------------------ dependency graph
EmptyGraph == [keys |-> <<>>, node |-> <<>>]
Has(g, a) == a \in DOMAIN g.node
\* spillRange is <<>> while the optional field is undefined, <<range>> once it is set.
NewNode ==
  [dependsOn |-> <<>>, dependents |-> <<>>, isDirty |-> TRUE, isCalculating |-> FALSE,
   spillRange |-> <<>>]
MapSet(g, a, n) ==
  IF Has(g, a) THEN [g EXCEPT !.node[a] = n]
  ELSE [keys |-> Append(g.keys, a), node |-> g.node @@ (a :> n)]
MapDelete(g, a) ==
  [keys |-> SetDelete(g.keys, a), node |-> [x \in DOMAIN g.node \ {a} |-> g.node[x]]]

\* Mutant of DropFromDependents: the old forward edges are not taken out of the old
\* dependencies' dependents sets.
DropFromDependentsSkipped(g, address, deps) == g

\* node.dependsOn.forEach(dep => depNode.dependents.delete(address))
RECURSIVE DropFromDependents(_, _, _)
DropFromDependents(g, address, deps) ==
  IF deps = <<>> THEN g
  ELSE LET dep == Head(deps)
           g1 == IF Has(g, dep)
                 THEN [g EXCEPT !.node[dep].dependents = SetDelete(@, address)]
                 ELSE g
       IN DropFromDependents(g1, address, Tail(deps))

RECURSIVE registerCell(_, _, _)
RECURSIVE AddDependencies(_, _, _)
\* Mutant of AddDependencies: a missing dependency is registered as depending on the
\* address that names it.
RECURSIVE AddDependenciesChained(_, _, _)
AddDependenciesChained(g, address, deps) ==
  IF deps = <<>> THEN g
  ELSE LET dep == Head(deps)
           g1 == IF Has(g, dep) THEN g ELSE registerCell(g, dep, <<address>>)
           g2 == [g1 EXCEPT !.node[dep].dependents = SetAdd(@, address)]
       IN AddDependenciesChained(g2, address, Tail(deps))

\* dependsOn.forEach(dep => { if (!has(dep)) registerCell(dep, []); depNode.dependents.add(address) })
AddDependencies(g, address, deps) ==
  IF deps = <<>> THEN g
  ELSE LET dep == Head(deps)
           g1 == IF Has(g, dep) THEN g ELSE registerCell(g, dep, <<>>)
           g2 == [g1 EXCEPT !.node[dep].dependents = SetAdd(@, address)]
       IN AddDependencies(g2, address, Tail(deps))

\* Mutant of registerCell: the new dependencies are added to the old ones, whose reverse
\* edges are kept.
registerCellMerges(g, address, dependsOn) ==
  LET g1 == IF Has(g, address) THEN g ELSE MapSet(g, address, NewNode)
      g3 == [g1 EXCEPT !.node[address].dependsOn = NewSet(@ \o dependsOn)]
  IN AddDependencies(g3, address, dependsOn)

registerCell(g, address, dependsOn) ==
  LET g1 == IF Has(g, address) THEN g ELSE MapSet(g, address, NewNode)
      g2 == DropFromDependents(g1, address, g1.node[address].dependsOn)
      g3 == [g2 EXCEPT !.node[address].dependsOn = NewSet(dependsOn)]
  IN AddDependencies(g3, address, dependsOn)

\* Mutant of DropFromDependsOn: the dependents of a removed node keep their edge to it.
DropFromDependsOnSkipped(g, address, deps) == g

\* node.dependents.forEach(dependent => depNode.dependsOn.delete(address))
RECURSIVE DropFromDependsOn(_, _, _)
DropFromDependsOn(g, address, deps) ==
  IF deps = <<>> THEN g
  ELSE LET d == Head(deps)
           g1 == IF Has(g, d)
                 THEN [g EXCEPT !.node[d].dependsOn = SetDelete(@, address)]
                 ELSE g
       IN DropFromDependsOn(g1, address, Tail(deps))

\* removeCell without the dirty-queue part: the graph after removeCell(address).
removeCellGraph(g, address) ==
  IF ~Has(g, address) THEN g
  ELSE LET g1 == DropFromDependents(g, address, g.node[address].dependsOn)
           g2 == DropFromDependsOn(g1, address, g1.node[address].dependents)
       IN MapDelete(g2, address)

\* getDependencyChain: upstream and downstream are the insertion-ordered Sets the two
\* traversals fill; a traversal takes the Set so far and gives the Set after it.
RECURSIVE traverseUpstream(_, _, _)
\* Mutant of EachDependsOn: a new dependency is added without being traversed.
RECURSIVE EachDependsOnShallow(_, _, _)
EachDependsOnShallow(g, upstream, deps) ==
  IF deps = <<>> THEN upstream
  ELSE EachDependsOnShallow(g, SetAdd(upstream, Head(deps)), Tail(deps))

\* node.dependsOn.forEach(dep => { if (!upstream.has(dep)) { add; traverseUpstream(dep) } })
RECURSIVE EachDependsOn(_, _, _)
EachDependsOn(g, upstream, deps) ==
  IF deps = <<>> THEN upstream
  ELSE LET dep == Head(deps)
           after == IF SetHas(upstream, dep) THEN upstream
                    ELSE traverseUpstream(g, SetAdd(upstream, dep), dep)
       IN EachDependsOn(g, after, Tail(deps))

traverseUpstream(g, upstream, addr) ==
  IF ~Has(g, addr) THEN upstream
  ELSE EachDependsOn(g, upstream, g.node[addr].dependsOn)

RECURSIVE traverseDownstream(_, _, _)
\* Mutant of EachDependent: the dependents are collected without descending into them.
RECURSIVE EachDependentShallow(_, _, _)
EachDependentShallow(g, downstream, deps) ==
  IF deps = <<>> THEN downstream
  ELSE EachDependentShallow(g, SetAdd(downstream, Head(deps)), Tail(deps))

\* node.dependents.forEach(d => { if (!downstream.has(d)) { add; traverseDownstream(d) } })
RECURSIVE EachDependent(_, _, _)
EachDependent(g, downstream, deps) ==
  IF deps = <<>> THEN downstream
  ELSE LET dependent == Head(deps)
           after == IF SetHas(downstream, dependent) THEN downstream
                    ELSE traverseDownstream(g, SetAdd(downstream, dependent), dependent)
       IN EachDependent(g, after, Tail(deps))

traverseDownstream(g, downstream, addr) ==
  IF ~Has(g, addr) THEN downstream
  ELSE EachDependent(g, downstream, g.node[addr].dependents)

getDependencyChain(g, address) ==
  [upstream |-> traverseUpstream(g, <<>>, address),
   downstream |-> traverseDownstream(g, <<>>, address)]

\* node ? Array.from(node.dependents) : []
getDependents(g, address) == IF Has(g, address) THEN g.node[address].dependents ELSE <<>>

\* node ? Array.from(node.dependsOn) : []
getDependencies(g, address) == IF Has(g, address) THEN g.node[address].dependsOn ELSE <<>>

\* Mutant of removeCell: the address stays in the dirty queue.
removeCellKeepsQueue(g, dq, address) == [g |-> removeCellGraph(g, address), dq |-> dq]

\* removeCell on the pair (graph, dirty queue): the record [g, dq] after the call; the
\* queue entry is deleted after the early return for an address without a node.
removeCell(g, dq, address) ==
  [g |-> removeCellGraph(g, address),
   dq |-> IF Has(g, address) THEN dq \ {address} ELSE dq]

\* markDirty on the pair (graph, dirty queue): the record [g, dq] after the call.
RECURSIVE markDirty(_, _, _)
RECURSIVE MarkDependents(_, _, _)
\* node.dependents.forEach(dependent => this.markDirty(dependent))
MarkDependents(g, dq, deps) ==
  IF deps = <<>> THEN [g |-> g, dq |-> dq]
  ELSE LET r == markDirty(g, dq, Head(deps))
       IN MarkDependents(r.g, r.dq, Tail(deps))

\* markDirty with a record of its own calls: tr is [g, dq, calls, expanded], calls the
\* addresses markDirty was invoked for, in order, and expanded the addresses whose
\* dependents were iterated.
RECURSIVE markDirtyTraced(_, _)
RECURSIVE EachDependentTraced(_, _)
EachDependentTraced(tr, deps) ==
  IF deps = <<>> THEN tr
  ELSE EachDependentTraced(markDirtyTraced(tr, Head(deps)), Tail(deps))

\* Mutant of markDirtyTraced: a dirty node that is not queued yet is queued and its
\* dependents are iterated as well.
markDirtyTracedRequeues(tr, address) ==
  LET t1 == [tr EXCEPT !.calls = Append(@, address)]
  IN IF ~Has(t1.g, address) THEN t1
     ELSE IF t1.g.node[address].isDirty /\ address \in t1.dq THEN t1
     ELSE EachDependentTraced([t1 EXCEPT !.g.node[address].isDirty = TRUE,
                                         !.dq = @ \cup {address},
                                         !.expanded = Append(@, address)],
                              t1.g.node[address].dependents)

markDirtyTraced(tr, address) ==
  LET t1 == [tr EXCEPT !.calls = Append(@, address)]
  IN IF ~Has(t1.g, address) THEN t1
     ELSE IF t1.g.node[address].isDirty THEN t1
     ELSE EachDependentTraced([t1 EXCEPT !.g.node[address].isDirty = TRUE,
                                         !.dq = @ \cup {address},
                                         !.expanded = Append(@, address)],
                              t1.g.node[address].dependents)

\* Mutant of markDirty: marking a node that is already dirty takes the mark back.
markDirtyToggles(g, dq, address) ==
  IF ~Has(g, address) THEN [g |-> g, dq |-> dq]
  ELSE IF g.node[address].isDirty
  THEN [g |-> [g EXCEPT !.node[address].isDirty = FALSE], dq |-> dq \ {address}]
  ELSE MarkDependents([g EXCEPT !.node[address].isDirty = TRUE],
                      dq \cup {address},
                      g.node[address].dependents)

\* Mutant of markDirty: the mark is also passed on to the nodes the node depends on.
markDirtyUpstream(g, dq, address) ==
  IF ~Has(g, address) THEN [g |-> g, dq |-> dq]
  ELSE IF g.node[address].isDirty THEN [g |-> g, dq |-> dq]
  ELSE MarkDependents([g EXCEPT !.node[address].isDirty = TRUE],
                      dq \cup {address},
                      g.node[address].dependents \o g.node[address].dependsOn)

\* Mutant of markDirty: a node that is already dirty is queued again.
markDirtyQueuesDirty(g, dq, address) ==
  IF ~Has(g, address) THEN [g |-> g, dq |-> dq]
  ELSE IF g.node[address].isDirty THEN [g |-> g, dq |-> dq \cup {address}]
  ELSE MarkDependents([g EXCEPT !.node[address].isDirty = TRUE],
                      dq \cup {address},
                      g.node[address].dependents)

markDirty(g, dq, address) ==
  IF ~Has(g, address) THEN [g |-> g, dq |-> dq]
  ELSE IF g.node[address].isDirty THEN [g |-> g, dq |-> dq]
  ELSE MarkDependents([g EXCEPT !.node[address].isDirty = TRUE],
                      dq \cup {address},
                      g.node[address].dependents)

\* detectCircularReferences: the traversal state is [visited, stack, cycles].
RECURSIVE dfs(_, _, _, _)
RECURSIVE DfsEach(_, _, _, _)
\* node.dependsOn.forEach(dep => dfs(dep, [...path]))
DfsEach(g, st, deps, path) ==
  IF deps = <<>> THEN st
  ELSE DfsEach(g, dfs(g, st, Head(deps), path), Tail(deps), path)

\* Mutant of dfs: the visited check comes before the recursion-stack check.
dfsVisitedFirst(g, st, address, path) ==
  IF address \in st.visited THEN st
  ELSE IF address \in st.stack
  THEN LET cycleStart == IndexOf(path, address)
       IN IF cycleStart >= 1
          THEN [st EXCEPT !.cycles =
                  Append(@, Append(SubSeq(path, cycleStart, Len(path)), address))]
          ELSE st
  ELSE LET st1 == [st EXCEPT !.visited = @ \cup {address}, !.stack = @ \cup {address}]
           path1 == Append(path, address)
           st2 == IF Has(g, address)
                  THEN DfsEach(g, st1, g.node[address].dependsOn, path1)
                  ELSE st1
       IN [st2 EXCEPT !.stack = @ \ {address}]

\* Mutant of dfs: a recorded cycle is the path slice without the closing address.
dfsOpenCycle(g, st, address, path) ==
  IF address \in st.stack
  THEN LET cycleStart == IndexOf(path, address)
       IN IF cycleStart >= 1
          THEN [st EXCEPT !.cycles = Append(@, SubSeq(path, cycleStart, Len(path)))]
          ELSE st
  ELSE IF address \in st.visited THEN st
  ELSE LET st1 == [st EXCEPT !.visited = @ \cup {address}, !.stack = @ \cup {address}]
           path1 == Append(path, address)
           st2 == IF Has(g, address)
                  THEN DfsEach(g, st1, g.node[address].dependsOn, path1)
                  ELSE st1
       IN [st2 EXCEPT !.stack = @ \ {address}]

\* Mutant of dfs: a recorded cycle is the whole path, not the slice from the repeated
\* address on.
dfsWholePath(g, st, address, path) ==
  IF address \in st.stack
  THEN LET cycleStart == IndexOf(path, address)
       IN IF cycleStart >= 1
          THEN [st EXCEPT !.cycles = Append(@, Append(path, address))]
          ELSE st
  ELSE IF address \in st.visited THEN st
  ELSE LET st1 == [st EXCEPT !.visited = @ \cup {address}, !.stack = @ \cup {address}]
           path1 == Append(path, address)
           st2 == IF Has(g, address)
                  THEN DfsEach(g, st1, g.node[address].dependsOn, path1)
                  ELSE st1
       IN [st2 EXCEPT !.stack = @ \ {address}]

dfs(g, st, address, path) ==
  IF address \in st.stack
  THEN LET cycleStart == IndexOf(path, address)
       IN IF cycleStart >= 1
          THEN [st EXCEPT !.cycles =
                  Append(@, Append(SubSeq(path, cycleStart, Len(path)), address))]
          ELSE st
  ELSE IF address \in st.visited THEN st
  ELSE LET st1 == [st EXCEPT !.visited = @ \cup {address}, !.stack = @ \cup {address}]
           path1 == Append(path, address)
           st2 == IF Has(g, address)
                  THEN DfsEach(g, st1, g.node[address].dependsOn, path1)
                  ELSE st1
       IN [st2 EXCEPT !.stack = @ \ {address}]

\* this.dependencyGraph.forEach((_, address) => { if (!visited.has(address)) dfs(address) })
RECURSIVE DfsRoots(_, _, _)
DfsRoots(g, st, keys) ==
  IF keys = <<>> THEN st
  ELSE LET a == Head(keys)
           st1 == IF a \in st.visited THEN st ELSE dfs(g, st, a, <<>>)
       IN DfsRoots(g, st1, Tail(keys))

detectCircularReferences(g) ==
  DfsRoots(g, [visited |-> {}, stack |-> {}, cycles |-> <<>>], g.keys).cycles

\* topologicalSort (Kahn): ks is [inDegree, queue, result].
\* Mutant of InitDegrees: the in-degree is taken from dependents instead of dependsOn.
RECURSIVE InitDegreesFromDependents(_, _, _)
InitDegreesFromDependents(g, ks, keys) ==
  IF keys = <<>> THEN ks
  ELSE LET a == Head(keys)
           n == Len(g.node[a].dependents)
           ks1 == [ks EXCEPT !.inDegree = @ @@ (a :> n),
                             !.queue = IF n = 0 THEN Append(@, a) ELSE @]
       IN InitDegreesFromDependents(g, ks1, Tail(keys))

\* Mutant of InitDegrees: a node's reference to itself is not counted.
RECURSIVE InitDegreesIgnoringSelf(_, _, _)
InitDegreesIgnoringSelf(g, ks, keys) ==
  IF keys = <<>> THEN ks
  ELSE LET a == Head(keys)
           n == Len(SetDelete(g.node[a].dependsOn, a))
           ks1 == [ks EXCEPT !.inDegree = @ @@ (a :> n),
                             !.queue = IF n = 0 THEN Append(@, a) ELSE @]
       IN InitDegreesIgnoringSelf(g, ks1, Tail(keys))

RECURSIVE InitDegrees(_, _, _)
InitDegrees(g, ks, keys) ==
  IF keys = <<>> THEN ks
  ELSE LET a == Head(keys)
           n == Len(g.node[a].dependsOn)
           ks1 == [ks EXCEPT !.inDegree = @ @@ (a :> n),
                             !.queue = IF n = 0 THEN Append(@, a) ELSE @]
       IN InitDegrees(g, ks1, Tail(keys))

\* node.dependents.forEach(dependent => { degree--; if (degree === 0) queue.push(dependent) })
RECURSIVE Relax(_, _)
Relax(ks, deps) ==
  IF deps = <<>> THEN ks
  ELSE LET d == Head(deps)
           degree == ks.inDegree[d] - 1
           ks1 == [ks EXCEPT !.inDegree[d] = degree,
                             !.queue = IF degree = 0 THEN Append(@, d) ELSE @]
       IN Relax(ks1, Tail(deps))

RECURSIVE Kahn(_, _)
Kahn(g, ks) ==
  IF ks.queue = <<>> THEN ks
  ELSE LET current == Head(ks.queue)
           ks1 == [ks EXCEPT !.queue = Tail(@), !.result = Append(@, current)]
           ks2 == IF Has(g, current) THEN Relax(ks1, g.node[current].dependents) ELSE ks1
       IN Kahn(g, ks2)

\* Mutant of topologicalSort: the Map's insertion order is returned instead of the result.
topologicalSortUnsorted(g) ==
  LET ks == Kahn(g, InitDegrees(g, [inDegree |-> <<>>, queue |-> <<>>, result |-> <<>>], g.keys))
  IN [order |-> g.keys, hasCycle |-> Len(ks.result) # Len(g.keys)]

\* Mutant of topologicalSort: every key is put in the order and no cycle is reported.
topologicalSortKeyOrder(g) == [order |-> g.keys, hasCycle |-> FALSE]

\* Mutant of topologicalSort: the result's length is compared with itself.
topologicalSortNeverCyclic(g) ==
  LET ks == Kahn(g, InitDegrees(g, [inDegree |-> <<>>, queue |-> <<>>, result |-> <<>>], g.keys))
  IN [order |-> ks.result, hasCycle |-> Len(ks.result) # Len(ks.result)]

topologicalSort(g) ==
  LET ks == Kahn(g, InitDegrees(g, [inDegree |-> <<>>, queue |-> <<>>, result |-> <<>>], g.keys))
  IN [order |-> ks.result, hasCycle |-> Len(ks.result) # Len(g.keys)]

\* ------------------------------------------------------------ spill ranges
\* A cell whose optional fields are undefined (error "none", isSpill FALSE, spillSource "").
BlankCell == [displayValue |-> "", error |-> "none", isSpill |-> FALSE, spillSource |-> ""]
Letters == <<"A", "B", "C", "D", "E", "F", "G", "H", "I", "J", "K", "L", "M",
             "N", "O", "P", "Q", "R", "S", "T", "U", "V", "W", "X", "Y", "Z">>
\* while (col > 0) { result = String.fromCharCode(65 + (col - 1) % 26) + result; ... }
RECURSIVE colToLetter(_)
colToLetter(col) ==
  IF col > 0 THEN colToLetter((col - 1) \div 26) \o Letters[((col - 1) % 26) + 1]
  ELSE ""

\* this.colToLetter(col + 1) + (row + 1), for a zero-based CellAddress
AddressOf(row, col) == colToLetter(col + 1) \o ToString(row + 1)

\* The two for loops of markSpillRange: every address of the rectangle gets its cell (a
\* fresh one when the store has none) flagged and stored; `value` is not used.
markSpillRange(range, cs, value) ==
  LET start == range.start
      end == range.end
      inside == {AddressOf(row, col) : row \in start.row..end.row, col \in start.col..end.col}
      cell(address) == IF address \in DOMAIN cs THEN cs[address] ELSE BlankCell
  IN [address \in DOMAIN cs \cup inside |->
        IF address \in inside
        THEN [cell(address) EXCEPT !.isSpill = TRUE,
                                   !.spillSource = AddressOf(start.row, start.col)]
        ELSE cs[address]]

\* ------------------------------------------------------------ engine state
\* ------------------------------------------------------ reference extraction
\* A formula is its sequence of characters.  \b lies between a word character
\* ([A-Za-z0-9_]) and a non-word character or an end of the text.
Digits == <<"0", "1", "2", "3", "4", "5", "6", "7", "8", "9">>
OtherWordChars == {"x", "_"}
IsUpper(c) == c \in Range(Letters)
IsDigit(c) == c \in Range(Digits)
IsWord(c) == IsUpper(c) \/ IsDigit(c) \/ c \in OtherWordChars

\* The characters s[1..Len(s)] as one string.
RECURSIVE Text(_)
Text(s) == IF s = <<>> THEN "" ELSE Head(s) \o Text(Tail(s))

\* The index after the longest run of [A-Z], or of \d, that starts at index i.
RECURSIVE LettersEnd(_, _)
LettersEnd(f, i) == IF i <= Len(f) /\ IsUpper(f[i]) THEN LettersEnd(f, i + 1) ELSE i
RECURSIVE DigitsEnd(_, _)
DigitsEnd(f, i) == IF i <= Len(f) /\ IsDigit(f[i]) THEN DigitsEnd(f, i + 1) ELSE i

\* [A-Z]+\d+ at index i: the index after the match, 0 when there is none.  What follows
\* in both patterns (\b or ':') cannot follow a shorter run, so both runs are the longest.
RefEnd(f, i) ==
  LET j == LettersEnd(f, i)
      k == DigitsEnd(f, j)
  IN IF j > i /\ k > j THEN k ELSE 0

BoundaryBefore(f, i) == i = 1 \/ ~IsWord(f[i - 1])
BoundaryAfter(f, k) == k > Len(f) \/ ~IsWord(f[k])

\* /\b([A-Z]+\d+)\b/g from lastIndex `from`: match[1] of every match, in order.
RECURSIVE CellMatches(_, _)
CellMatches(f, from) ==
  IF from > Len(f) THEN <<>>
  ELSE LET k == RefEnd(f, from)
       IN IF BoundaryBefore(f, from) /\ k # 0 /\ BoundaryAfter(f, k)
          THEN <<Text(SubSeq(f, from, k - 1))>> \o CellMatches(f, k)
          ELSE CellMatches(f, from + 1)

\* /\b([A-Z]+\d+):([A-Z]+\d+)\b/g from lastIndex `from`: [start, end] of every match.
RECURSIVE RangeMatches(_, _)
RangeMatches(f, from) ==
  IF from > Len(f) THEN <<>>
  ELSE LET k == RefEnd(f, from)
           m == IF k # 0 /\ k <= Len(f) /\ f[k] = ":" THEN RefEnd(f, k + 1) ELSE 0
       IN IF BoundaryBefore(f, from) /\ m # 0 /\ BoundaryAfter(f, m)
          THEN <<[start |-> SubSeq(f, from, k - 1), end |-> SubSeq(f, k + 1, m - 1)]>>
                 \o RangeMatches(f, m)
          ELSE RangeMatches(f, from + 1)

\* col = col * 26 + (letter.charCodeAt(i) - 64)
RECURSIVE letterToCol(_)
letterToCol(letter) ==
  IF letter = <<>> THEN 0
  ELSE letterToCol(SubSeq(letter, 1, Len(letter) - 1)) * 26
         + IndexOf(Letters, letter[Len(letter)])

\* parseInt of a run of decimal digits.
RECURSIVE parseInt(_)
parseInt(digits) ==
  IF digits = <<>> THEN 0
  ELSE parseInt(SubSeq(digits, 1, Len(digits) - 1)) * 10
         + (IndexOf(Digits, digits[Len(digits)]) - 1)

Min(a, b) == IF a <= b THEN a ELSE b
Max(a, b) == IF a >= b THEN a ELSE b

\* Mutant of expandRange: the loops run from start to end, and not at all when start lies
\* after end.
expandRangeForward(start, end) ==
  LET startCol == letterToCol(SubSeq(start, 1, LettersEnd(start, 1) - 1))
      startRow == parseInt(SubSeq(start, LettersEnd(start, 1), Len(start)))
      endCol == letterToCol(SubSeq(end, 1, LettersEnd(end, 1) - 1))
      endRow == parseInt(SubSeq(end, LettersEnd(end, 1), Len(end)))
      width == IF endCol >= startCol THEN endCol - startCol + 1 ELSE 0
      height == IF endRow >= startRow THEN endRow - startRow + 1 ELSE 0
  IN [n \in 1..(height * width) |->
        colToLetter(startCol + ((n - 1) % width))
          \o ToString(startRow + ((n - 1) \div width))]

\* expandRange: rows in the outer loop, columns in the inner one, both from the smaller
\* to the larger bound; the n-th pushed address is colToLetter(col) + row.
expandRange(start, end) ==
  LET startCol == letterToCol(SubSeq(start, 1, LettersEnd(start, 1) - 1))
      startRow == parseInt(SubSeq(start, LettersEnd(start, 1), Len(start)))
      endCol == letterToCol(SubSeq(end, 1, LettersEnd(end, 1) - 1))
      endRow == parseInt(SubSeq(end, LettersEnd(end, 1), Len(end)))
      firstCol == Min(startCol, endCol)
      firstRow == Min(startRow, endRow)
      width == Max(startCol, endCol) - firstCol + 1
      height == Max(startRow, endRow) - firstRow + 1
  IN [n \in 1..(height * width) |->
        colToLetter(firstCol + ((n - 1) % width))
          \o ToString(firstRow + ((n - 1) \div width))]

\* references.push(...expanded) for every match of the range pattern.
RECURSIVE Expanded(_)
Expanded(ranges) ==
  IF ranges = <<>> THEN <<>>
  ELSE expandRange(Head(ranges).start, Head(ranges).end) \o Expanded(Tail(ranges))

extractReferences(f) == NewSet(CellMatches(f, 1) \o Expanded(RangeMatches(f, 1)))

VARIABLES
  dependencyGraph,   \* Map<string, DependencyNode>
  dirtyQueue,        \* Set<string>; only membership and size are ever read
  calculationOrder,  \* the order of the most recent topologicalSort
  maxIterations,     \* the constructor's ceiling
  isCalculating,     \* the engine's flag
  abortController,   \* "undefined", "live" or "aborted"
  cells,             \* the caller's store: address -> [displayValue, error, isSpill, spillSource]
  pass,              \* per recalculate call: its locals while in flight, its result after
  ops,               \* engine calls so far
  lastCall,          \* the most recent engine call: [op, address]
  formula,           \* the argument of extractReferences, a sequence of characters
  references         \* the list extractReferences returned for it

vars == <<dependencyGraph, dirtyQueue, calculationOrder, maxIterations, isCalculating,
          abortController, cells, pass, ops, lastCall, formula, references>>

Passes == 1..MaxPasses

\* result.value of an evaluator call that resolves.
Values == {"5"}
\* What an evaluator call may resolve to when it carries no spill range; spillRange is
\* <<>> while the optional field is undefined, <<range>> otherwise.
PlainResults == {[value |-> v, spillRange |-> <<>>] : v \in Values}
\* CellAddress values (zero-based) and the results that carry a spill range; start may
\* lie after end in either dimension.
GridCells == [row : 0..MaxRow, col : 0..MaxCol]
SpillResults ==
  {[value |-> v, spillRange |-> <<[start |-> s, end |-> e]>>] :
     v \in Values, s \in GridCells, e \in GridCells}
\* The key sets of the caller's store, one per size: the engine treats addresses as
\* opaque keys, so which addresses have content matters only up to renaming.
StoreKeySets == {{AddrNames[i] : i \in 1..n} : n \in 0..NumAddr}

NoStats == [totalCells |-> 0, dirtyCells |-> 0, calculatedCells |-> 0, circularReferences |-> <<>>]
\* pc, order, pos and stats are the locals of the call.  The other fields record what
\* the call did: evalLog (the addresses the evaluator was invoked for, in order),
\* dirtyWithContent (how many nodes were dirty with content in the store when the call
\* started), startStore and startDirty (the store's keys and the dirty nodes when the
\* call started), concurrent (the calls already suspended when this one started), during
\* (the markDirty and abort calls made while the call was suspended), editedInFlight
\* (the addresses markDirty was called for during their own evaluator call), detached
\* (whether the node object the loop holds for the cell being evaluated has been deleted
\* from the Map meanwhile, so that the loop's writes to it no longer reach the graph) and
\* outcome (how
\* the promise settled).
IdlePass ==
  [pc |-> "idle", order |-> <<>>, pos |-> 0, stats |-> NoStats, evalLog |-> <<>>,
   dirtyWithContent |-> 0, startStore |-> {}, startDirty |-> {}, concurrent |-> {},
   during |-> <<>>, editedInFlight |-> {}, detached |-> FALSE, outcome |-> "none"]

Call(op, address) == [op |-> op, address |-> address]

Init ==
  /\ dependencyGraph = EmptyGraph
  /\ dirtyQueue = {}
  /\ calculationOrder = <<>>
  /\ maxIterations \in 1..MaxCeiling
  /\ isCalculating = FALSE
  /\ abortController = "undefined"
  /\ cells \in {[a \in S |-> BlankCell] : S \in StoreKeySets}
  /\ pass = [p \in Passes |-> IdlePass]
  /\ ops = 0
  /\ lastCall = Call("constructor", "")
  /\ formula = <<>>
  /\ references = <<>>

NoPassInFlight == \A p \in Passes : pass[p].pc = "idle"
CallerMayCall == NoPassInFlight /\ ops < MaxOps

\* ------------------------------------------------------- graph operations
RegisterCell(a, l) ==
  /\ CallerMayCall
  /\ ops < MaxOps - ReadingCalls
  /\ dependencyGraph' = registerCell(dependencyGraph, a, l)
  /\ ops' = ops + 1
  /\ lastCall' = Call("registerCell", a)
  /\ UNCHANGED <<dirtyQueue, calculationOrder, maxIterations, formula, references, isCalculating,
                 abortController, cells, pass>>

RemoveCell(a) ==
  /\ CallerMayCall
  /\ dependencyGraph' = removeCell(dependencyGraph, dirtyQueue, a).g
  /\ dirtyQueue' = removeCell(dependencyGraph, dirtyQueue, a).dq
  /\ ops' = ops + 1
  /\ lastCall' = Call("removeCell", a)
  /\ UNCHANGED <<calculationOrder, maxIterations, formula, references, isCalculating, abortController, cells, pass>>

Clear ==
  /\ CallerMayCall
  /\ dependencyGraph' = EmptyGraph
  /\ dirtyQueue' = {}
  /\ calculationOrder' = <<>>
  /\ ops' = ops + 1
  /\ lastCall' = Call("clear", "")
  /\ UNCHANGED <<maxIterations, formula, references, isCalculating, abortController, cells, pass>>

MarkDirty(a) ==
  /\ CallerMayCall
  /\ LET r == markDirty(dependencyGraph, dirtyQueue, a)
     IN /\ dependencyGraph' = r.g
        /\ dirtyQueue' = r.dq
  /\ ops' = ops + 1
  /\ lastCall' = Call("markDirty", a)
  /\ UNCHANGED <<calculationOrder, maxIterations, formula, references, isCalculating, abortController, cells, pass>>

\* ------------------------------------------------------------ recalculate
\* cycles.flat().forEach(address => { cell.displayValue = '#CIRCULAR!'; ... })
RECURSIVE Flat(_)
Flat(ss) == IF ss = <<>> THEN <<>> ELSE Head(ss) \o Flat(Tail(ss))
\* Mutant of MarkCircular: every cell of the store is marked.
MarkCircularAll(cs, cycles) ==
  [a \in DOMAIN cs |->
     [cs[a] EXCEPT !.displayValue = "#CIRCULAR!", !.error = "Circular reference detected"]]

MarkCircular(cs, cycles) ==
  [a \in DOMAIN cs |->
     IF a \in Range(Flat(cycles))
     THEN [cs[a] EXCEPT !.displayValue = "#CIRCULAR!", !.error = "Circular reference detected"]
     ELSE cs[a]]

\* Mutant of NextIndex: a clean node is not skipped.
NextIndexIgnoresDirty(g, cs, order, from) ==
  LET live == {i \in (from + 1)..Len(order) :
                 /\ Has(g, order[i])
                 /\ order[i] \in DOMAIN cs}
  IN IF live = {} THEN 0 ELSE CHOOSE i \in live : \A j \in live : i <= j

\* The first index after `from` the loop does not `continue` past; 0 when there is none.
NextIndex(g, cs, order, from) ==
  LET live == {i \in (from + 1)..Len(order) :
                 /\ Has(g, order[i])
                 /\ order[i] \in DOMAIN cs
                 /\ g.node[order[i]].isDirty}
  IN IF live = {} THEN 0 ELSE CHOOSE i \in live : \A j \in live : i <= j

\* Mutant of RunLoop: normal completion leaves the dirty queue as it is.
RunLoopKeepsQueue(p, g, cs, P, ctl) ==
  LET i == NextIndex(g, cs, P.order, P.pos)
  IN /\ cells' = cs
     /\ IF i = 0
        THEN \* normal completion without this.dirtyQueue.clear()
             /\ dependencyGraph' = g
             /\ dirtyQueue' = dirtyQueue
             /\ isCalculating' = FALSE
             /\ abortController' = "undefined"
             /\ pass' = [pass EXCEPT ![p] =
                           [P EXCEPT !.pc = "idle", !.pos = Len(P.order), !.outcome = "resolved"]]
        ELSE IF ctl = "undefined"
        THEN \* this.abortController.signal on undefined: a TypeError leaves the loop
             /\ dependencyGraph' = g
             /\ isCalculating' = FALSE
             /\ abortController' = "undefined"
             /\ pass' = [pass EXCEPT ![p] =
                           [P EXCEPT !.pc = "idle", !.pos = i, !.outcome = "rejected: TypeError"]]
             /\ UNCHANGED dirtyQueue
        ELSE IF ctl = "aborted"
        THEN /\ dependencyGraph' = g
             /\ isCalculating' = FALSE
             /\ abortController' = "undefined"
             /\ pass' = [pass EXCEPT ![p] =
                           [P EXCEPT !.pc = "idle", !.pos = i, !.outcome = "rejected: aborted"]]
             /\ UNCHANGED dirtyQueue
        ELSE IF P.stats.calculatedCells > maxIterations
        THEN /\ dependencyGraph' = g
             /\ isCalculating' = FALSE
             /\ abortController' = "undefined"
             /\ pass' = [pass EXCEPT ![p] =
                           [P EXCEPT !.pc = "idle", !.pos = i,
                                     !.outcome = "rejected: max iterations"]]
             /\ UNCHANGED dirtyQueue
        ELSE \* node.isCalculating = true; the evaluator is invoked and awaited
             /\ dependencyGraph' = [g EXCEPT !.node[P.order[i]].isCalculating = TRUE]
             /\ isCalculating' = TRUE
             /\ abortController' = ctl
             /\ pass' = [pass EXCEPT ![p] =
                           [P EXCEPT !.pc = "awaiting", !.pos = i, !.detached = FALSE,
                                     !.evalLog = Append(@, P.order[i])]]
             /\ UNCHANGED dirtyQueue

\* The for loop of recalculate from the position after P.pos up to the next
\* `await evaluator(...)`, the end of the order, or a throw; g, cs and P are the graph,
\* the store and the pass's locals as the code before the loop (or the resumed
\* iteration) left them; ctl is this.abortController as the loop reads it.
RunLoop(p, g, cs, P, ctl) ==
  LET i == NextIndex(g, cs, P.order, P.pos)
  IN /\ cells' = cs
     /\ IF i = 0
        THEN \* normal completion: clear the queue, then the finally block
             /\ dependencyGraph' = g
             /\ dirtyQueue' = {}
             /\ isCalculating' = FALSE
             /\ abortController' = "undefined"
             /\ pass' = [pass EXCEPT ![p] =
                           [P EXCEPT !.pc = "idle", !.pos = Len(P.order), !.outcome = "resolved"]]
        ELSE IF ctl = "undefined"
        THEN \* this.abortController.signal on undefined: a TypeError leaves the loop
             /\ dependencyGraph' = g
             /\ isCalculating' = FALSE
             /\ abortController' = "undefined"
             /\ pass' = [pass EXCEPT ![p] =
                           [P EXCEPT !.pc = "idle", !.pos = i, !.outcome = "rejected: TypeError"]]
             /\ UNCHANGED dirtyQueue
        ELSE IF ctl = "aborted"
        THEN /\ dependencyGraph' = g
             /\ isCalculating' = FALSE
             /\ abortController' = "undefined"
             /\ pass' = [pass EXCEPT ![p] =
                           [P EXCEPT !.pc = "idle", !.pos = i, !.outcome = "rejected: aborted"]]
             /\ UNCHANGED dirtyQueue
        ELSE IF P.stats.calculatedCells > maxIterations
        THEN /\ dependencyGraph' = g
             /\ isCalculating' = FALSE
             /\ abortController' = "undefined"
             /\ pass' = [pass EXCEPT ![p] =
                           [P EXCEPT !.pc = "idle", !.pos = i,
                                     !.outcome = "rejected: max iterations"]]
             /\ UNCHANGED dirtyQueue
        ELSE \* node.isCalculating = true; the evaluator is invoked and awaited
             /\ dependencyGraph' = [g EXCEPT !.node[P.order[i]].isCalculating = TRUE]
             /\ isCalculating' = TRUE
             /\ abortController' = ctl
             /\ pass' = [pass EXCEPT ![p] =
                           [P EXCEPT !.pc = "awaiting", !.pos = i, !.detached = FALSE,
                                     !.evalLog = Append(@, P.order[i])]]
             /\ UNCHANGED dirtyQueue

\* cycle.join(' → ')
RECURSIVE Join(_)
Join(cycle) ==
  IF cycle = <<>> THEN ""
  ELSE IF Len(cycle) = 1 THEN cycle[1]
  ELSE cycle[1] \o " → " \o Join(Tail(cycle))
\* cycles.map(cycle => cycle.join(' → '))
CyclesAsText(cycles) == [i \in 1..Len(cycles) |-> Join(cycles[i])]

\* A recalculate call from its first statement to its first await or its return; p is
\* the entry of `pass` that holds the call's locals.
StartPass(p) ==
  /\ pass[p].outcome = "none"
  /\ \A q \in 1..(p - 1) : pass[q].outcome # "none" \/ pass[q].pc = "awaiting"
  /\ ops' = ops + 1
  /\ lastCall' = Call("recalculate", "")
  /\ LET cycles == detectCircularReferences(dependencyGraph)
         stats == [totalCells |-> Len(dependencyGraph.keys),
                   dirtyCells |-> Cardinality(dirtyQueue),
                   calculatedCells |-> 0,
                   circularReferences |-> CyclesAsText(cycles)]
         cs == IF cycles # <<>> THEN MarkCircular(cells, cycles) ELSE cells
         sorted == topologicalSort(dependencyGraph)
         P == [pc |-> "idle", order |-> sorted.order, pos |-> 0, stats |-> stats,
               evalLog |-> <<>>,
               dirtyWithContent |->
                 Cardinality({a \in DOMAIN dependencyGraph.node :
                                a \in DOMAIN cells /\ dependencyGraph.node[a].isDirty}),
               startStore |-> DOMAIN cells,
               startDirty |-> {a \in DOMAIN dependencyGraph.node :
                                 dependencyGraph.node[a].isDirty},
               concurrent |-> {q \in Passes : pass[q].pc = "awaiting"},
               during |-> <<>>,
               editedInFlight |-> {},
               detached |-> FALSE,
               outcome |-> "none"]
     IN /\ calculationOrder' = sorted.order
        /\ IF sorted.hasCycle
           THEN /\ cells' = cs
                /\ pass' = [pass EXCEPT ![p] = [P EXCEPT !.outcome = "resolved"]]
                /\ UNCHANGED <<dependencyGraph, dirtyQueue, isCalculating, abortController>>
           ELSE RunLoop(p, dependencyGraph, cs, P, "live")
  /\ UNCHANGED <<maxIterations, formula, references>>

Recalculate(p) == CallerMayCall /\ StartPass(p)

\* Mutant of EvaluatorReturns: an aborted call drops the result of the dispatched
\* evaluator call instead of running the rest of the iteration.
EvaluatorReturnsInterrupted(p, r) ==
  /\ pass[p].pc = "awaiting"
  /\ LET P == pass[p]
         a == P.order[P.pos]
         written == [cells EXCEPT ![a].displayValue = r.value, ![a].error = "none"]
         g == IF P.detached THEN dependencyGraph
              ELSE [dependencyGraph EXCEPT !.node[a].isDirty = FALSE,
                                      !.node[a].isCalculating = FALSE]
         P1 == [P EXCEPT !.stats.calculatedCells = @ + 1]
     IN IF abortController = "aborted"
        THEN RunLoop(p, dependencyGraph, cells, P, abortController)
        ELSE RunLoop(p, g, written, P1, abortController)
  /\ UNCHANGED <<calculationOrder, maxIterations, formula, references, ops, lastCall>>

\* Mutant of EvaluatorReturns: the cells of a spill range are registered as depending on
\* the evaluated cell's node.
EvaluatorReturnsRegistersSpill(p, r) ==
  /\ pass[p].pc = "awaiting"
  /\ LET P == pass[p]
         a == P.order[P.pos]
         written == [cells EXCEPT ![a].displayValue = r.value, ![a].error = "none"]
         cs == IF r.spillRange # <<>>
               THEN markSpillRange(r.spillRange[1], written, r.value)
               ELSE written
         g0 == IF P.detached THEN dependencyGraph
               ELSE [dependencyGraph EXCEPT !.node[a].isDirty = FALSE,
                                       !.node[a].isCalculating = FALSE,
                                       !.node[a].spillRange = IF r.spillRange # <<>>
                                                              THEN r.spillRange ELSE @]
         g == IF r.spillRange # <<>>
              THEN registerCell(g0, AddressOf(r.spillRange[1].end.row, r.spillRange[1].end.col),
                                <<a>>)
              ELSE g0
         P1 == [P EXCEPT !.stats.calculatedCells = @ + 1]
     IN RunLoop(p, g, cs, P1, abortController)
  /\ UNCHANGED <<calculationOrder, maxIterations, formula, references, ops, lastCall>>

\* `await evaluator(address, cell)` resolves with the result r.
EvaluatorReturns(p, r) ==
  /\ pass[p].pc = "awaiting"
  /\ LET P == pass[p]
         a == P.order[P.pos]
         written == [cells EXCEPT ![a].displayValue = r.value, ![a].error = "none"]
         cs == IF r.spillRange # <<>>
               THEN markSpillRange(r.spillRange[1], written, r.value)
               ELSE written
         g == IF P.detached THEN dependencyGraph
              ELSE [dependencyGraph EXCEPT !.node[a].isDirty = FALSE,
                                      !.node[a].isCalculating = FALSE,
                                      !.node[a].spillRange = IF r.spillRange # <<>>
                                                             THEN r.spillRange ELSE @]
         P1 == [P EXCEPT !.stats.calculatedCells = @ + 1]
     IN RunLoop(p, g, cs, P1, abortController)
  /\ UNCHANGED <<calculationOrder, maxIterations, formula, references, ops, lastCall>>

\* Mutant of EvaluatorThrows: the exception is not caught per cell and leaves the loop.
EvaluatorThrowsRejects(p) ==
  /\ pass[p].pc = "awaiting"
  /\ LET P == pass[p]
         a == P.order[P.pos]
     IN /\ dependencyGraph' = IF P.detached THEN dependencyGraph
                              ELSE [dependencyGraph EXCEPT !.node[a].isCalculating = FALSE]
        /\ isCalculating' = FALSE
        /\ abortController' = "undefined"
        /\ pass' = [pass EXCEPT ![p] = [P EXCEPT !.pc = "idle", !.outcome = "rejected: evaluator"]]
  /\ UNCHANGED <<dirtyQueue, cells, calculationOrder, maxIterations, formula, references, ops, lastCall>>

\* Mutant of EvaluatorThrows: the catch block does not reset node.isDirty.
EvaluatorThrowsLeavesDirty(p) ==
  /\ pass[p].pc = "awaiting"
  /\ LET P == pass[p]
         a == P.order[P.pos]
         cs == [cells EXCEPT ![a].displayValue = "#ERROR!", ![a].error = "thrown"]
         g == IF P.detached THEN dependencyGraph
              ELSE [dependencyGraph EXCEPT !.node[a].isCalculating = FALSE]
     IN RunLoop(p, g, cs, P, abortController)
  /\ UNCHANGED <<calculationOrder, maxIterations, formula, references, ops, lastCall>>

\* `await evaluator(address, cell)` throws or rejects.
EvaluatorThrows(p) ==
  /\ pass[p].pc = "awaiting"
  /\ LET P == pass[p]
         a == P.order[P.pos]
         cs == [cells EXCEPT ![a].displayValue = "#ERROR!", ![a].error = "thrown"]
         g == IF P.detached THEN dependencyGraph
              ELSE [dependencyGraph EXCEPT !.node[a].isDirty = FALSE,
                                      !.node[a].isCalculating = FALSE]
     IN RunLoop(p, g, cs, P, abortController)
  /\ UNCHANGED <<calculationOrder, maxIterations, formula, references, ops, lastCall>>

Next ==
  \/ \E a \in Addr, l \in DepLists : RegisterCell(a, l)
  \/ \E a \in Addr : RemoveCell(a)
  \/ Clear
  \/ \E a \in Addr : MarkDirty(a)
  \/ \E p \in Passes : Recalculate(p)
  \/ \E p \in Passes, r \in PlainResults : EvaluatorReturns(p, r)
  \/ \E p \in Passes : EvaluatorThrows(p)

Spec == Init /\ [][Next]_vars

\* ------------------------------------------- an engine built with the default ceiling
\* constructor(maxIterations = 1000)
DefaultMaxIterations == 1000

\* The state after `new CalculationEngine()`, for every store of the caller.
InitDefault ==
  /\ dependencyGraph = EmptyGraph
  /\ dirtyQueue = {}
  /\ calculationOrder = <<>>
  /\ maxIterations = DefaultMaxIterations
  /\ isCalculating = FALSE
  /\ abortController = "undefined"
  /\ cells \in {[a \in S |-> BlankCell] : S \in StoreKeySets}
  /\ pass = [p \in Passes |-> IdlePass]
  /\ ops = 0
  /\ lastCall = Call("constructor", "")
  /\ formula = <<>>
  /\ references = <<>>

SpecDefault == InitDefault /\ [][Next]_vars

\* ------------------------------------------- extractReferences on a fresh engine
\* The formulas handed to extractReferences: every text of up to MaxPieces pieces, a piece
\* being a cell reference, the range operator, another operator or a word character that
\* is neither a capital letter nor a digit; and the formula of the specification's
\* scenario.  The references lie around column Z and row 9, where the column name gets
\* its second letter and the row its second digit.
MaxPieces == 4
RefPieces ==
  {<<"Y", "8">>, <<"Z", "8">>, <<"Z", "9">>, <<"A", "A", "1", "0">>,
   <<"A", "B", "1", "1">>}
Pieces == RefPieces \cup {<<":">>, <<"+">>, <<"x">>}
RECURSIVE PieceLists(_)
PieceLists(n) ==
  IF n = 0 THEN {<<>>}
  ELSE LET shorter == PieceLists(n - 1)
       IN shorter \cup {Append(l, q) : l \in {s \in shorter : Len(s) = n - 1}, q \in Pieces}
ExampleFormula ==
  <<"=", "S", "U", "M", "(", "A", "1", ":", "A", "3", ")", "+", "B", "5">>
Formulas == {Flat(l) : l \in PieceLists(MaxPieces)} \cup {ExampleFormula}

InitRefs ==
  /\ dependencyGraph = EmptyGraph
  /\ dirtyQueue = {}
  /\ calculationOrder = <<>>
  /\ maxIterations = DefaultMaxIterations
  /\ isCalculating = FALSE
  /\ abortController = "undefined"
  /\ cells = [a \in {} |-> BlankCell]
  /\ pass = [p \in Passes |-> IdlePass]
  /\ ops = 0
  /\ lastCall = Call("constructor", "")
  /\ formula \in Formulas
  /\ references = <<>>

\* const dependencies = calcEngine.current.extractReferences(updatedCell.formula)
ExtractReferences ==
  /\ lastCall.op = "constructor"
  /\ references' = extractReferences(formula)
  /\ lastCall' = Call("extractReferences", "")
  /\ UNCHANGED <<dependencyGraph, dirtyQueue, calculationOrder, maxIterations,
                 isCalculating, abortController, cells, pass, ops, formula>>

NextRefs == ExtractReferences

SpecRefs == InitRefs /\ [][NextRefs]_vars

\* ------------------------------------------- calls made while a pass is suspended
\* recalculate is async: while it is suspended at `await evaluator(...)` the caller can
\* run.  The calls below are the ones made then; they act on the same engine fields.
CallerMayInterleave == ~NoPassInFlight /\ ops < MaxOps

\* The call is noted in `during` of every suspended recalculate call, and a markDirty
\* for the very address whose evaluator call the recalculate call is suspended in is
\* noted in `editedInFlight` as well.
Noted(op, address) ==
  [p \in Passes |->
     IF pass[p].pc = "awaiting"
     THEN [pass[p] EXCEPT !.during = Append(@, Call(op, address)),
                          !.editedInFlight =
                            IF op = "markDirty" /\ address = pass[p].order[pass[p].pos]
                            THEN @ \cup {address} ELSE @]
     ELSE pass[p]]

MarkDirtyDuringPass(a) ==
  /\ CallerMayInterleave
  /\ LET r == markDirty(dependencyGraph, dirtyQueue, a)
     IN /\ dependencyGraph' = r.g
        /\ dirtyQueue' = r.dq
  /\ pass' = Noted("markDirty", a)
  /\ ops' = ops + 1
  /\ lastCall' = Call("markDirty", a)
  /\ UNCHANGED <<calculationOrder, maxIterations, formula, references, isCalculating, abortController, cells>>

\* Mutant of Abort: the controller is left as it is.
AbortIgnored ==
  /\ ops < MaxOps
  /\ pass' = Noted("abort", "")
  /\ ops' = ops + 1
  /\ lastCall' = Call("abort", "")
  /\ UNCHANGED <<dependencyGraph, dirtyQueue, calculationOrder, maxIterations, formula, references,
                 isCalculating, abortController, cells>>

\* Mutant of Abort: a controller is aborted whether or not a call has created one.
AbortUnguarded ==
  /\ ops < MaxOps
  /\ abortController' = "aborted"
  /\ pass' = Noted("abort", "")
  /\ ops' = ops + 1
  /\ lastCall' = Call("abort", "")
  /\ UNCHANGED <<dependencyGraph, dirtyQueue, calculationOrder, maxIterations, formula, references,
                 isCalculating, cells>>

\* if (this.abortController) { this.abortController.abort(); }
Abort ==
  /\ ops < MaxOps
  /\ abortController' = IF abortController = "undefined" THEN "undefined" ELSE "aborted"
  /\ pass' = Noted("abort", "")
  /\ ops' = ops + 1
  /\ lastCall' = Call("abort", "")
  /\ UNCHANGED <<dependencyGraph, dirtyQueue, calculationOrder, maxIterations, formula, references,
                 isCalculating, cells>>

\* A second recalculate call, started while an earlier one is suspended.
RecalculateDuringPass(p) == CallerMayInterleave /\ StartPass(p)

NextConc ==
  \/ \E a \in Addr, l \in DepLists : RegisterCell(a, l)
  \/ \E a \in Addr : MarkDirty(a)
  \/ \E p \in Passes : Recalculate(p)
  \/ \E a \in Addr : MarkDirtyDuringPass(a)
  \/ Abort
  \/ \E p \in Passes : RecalculateDuringPass(p)
  \/ \E p \in Passes, r \in PlainResults : EvaluatorReturns(p, r)
  \/ \E p \in Passes : EvaluatorThrows(p)

SpecConc == Init /\ [][NextConc]_vars

\* ------------------------------------ graph edits made while a pass is suspended
\* registerCell called while a recalculate call is suspended.  The call's order is a
\* local computed before the loop, so the new edges and nodes do not enter it.
RegisterCellDuringPass(a, l) ==
  /\ CallerMayInterleave
  /\ dependencyGraph' = registerCell(dependencyGraph, a, l)
  /\ pass' = Noted("registerCell", a)
  /\ ops' = ops + 1
  /\ lastCall' = Call("registerCell", a)
  /\ UNCHANGED <<dirtyQueue, calculationOrder, maxIterations, formula, references,
                 isCalculating, abortController, cells>>

\* removeCell called while a recalculate call is suspended.  When the address is the one
\* being evaluated, the loop keeps the deleted node object in its local `node`.
RemoveCellDuringPass(a) ==
  /\ CallerMayInterleave
  /\ dependencyGraph' = removeCell(dependencyGraph, dirtyQueue, a).g
  /\ dirtyQueue' = removeCell(dependencyGraph, dirtyQueue, a).dq
  /\ pass' = [p \in Passes |->
                IF pass[p].pc = "awaiting"
                THEN [Noted("removeCell", a)[p] EXCEPT
                        !.detached = @ \/ (/\ Has(dependencyGraph, a)
                                           /\ a = pass[p].order[pass[p].pos])]
                ELSE pass[p]]
  /\ ops' = ops + 1
  /\ lastCall' = Call("removeCell", a)
  /\ UNCHANGED <<calculationOrder, maxIterations, formula, references, isCalculating,
                 abortController, cells>>

\* The engine with a caller who registers, removes and marks cells while a pass is
\* suspended; cells are registered with at most one dependency.
NextEdit ==
  \/ \E a \in Addr, l \in ListsUpTo(1) : RegisterCell(a, l)
  \/ \E p \in Passes : Recalculate(p)
  \/ \E a \in Addr : MarkDirtyDuringPass(a)
  \/ \E a \in Addr, l \in ListsUpTo(1) : RegisterCellDuringPass(a, l)
  \/ \E a \in Addr : RemoveCellDuringPass(a)
  \/ \E p \in Passes, r \in PlainResults : EvaluatorReturns(p, r)
  \/ \E p \in Passes : EvaluatorThrows(p)

SpecEdit == Init /\ [][NextEdit]_vars

\* -------------------------------------------------------- spilling results
\* The engine with an evaluator that may return spill ranges; cells are registered with
\* at most one dependency.
NextSpill ==
  \/ \E a \in Addr, l \in ListsUpTo(1) : RegisterCell(a, l)
  \/ \E p \in Passes : Recalculate(p)
  \/ \E p \in Passes, r \in PlainResults \cup SpillResults : EvaluatorReturns(p, r)
  \/ \E p \in Passes : EvaluatorThrows(p)

\* The same engine with a caller who may also call abort(): every way a recalculate call
\* can end occurs (normal completion, cycle, cancellation, ceiling, evaluator failure),
\* with and without spills.
NextOutcomes ==
  \/ \E a \in Addr, l \in ListsUpTo(1) : RegisterCell(a, l)
  \/ \E p \in Passes : Recalculate(p)
  \/ Abort
  \/ \E p \in Passes, r \in PlainResults \cup SpillResults : EvaluatorReturns(p, r)
  \/ \E p \in Passes : EvaluatorThrows(p)

SpecOutcomes == Init /\ [][NextOutcomes]_vars

SpecSpill == Init /\ [][NextSpill]_vars

\* ------------------------------------------------- graph maintenance only
\* The same engine driven by a caller with an empty cell store and no bound on the number
\* of registerCell, removeCell and clear calls, who ends with one recalculate: every
\* graph over Addr that any sequence of those calls can build is reached.
InitGraph == Init /\ DOMAIN cells = {}

GraphRegisterCell(a, l) ==
  /\ pass[1].outcome = "none"
  /\ dependencyGraph' = registerCell(dependencyGraph, a, l)
  /\ UNCHANGED <<dirtyQueue, calculationOrder, maxIterations, formula, references, isCalculating,
                 abortController, cells, pass, ops, lastCall>>

GraphRemoveCell(a) ==
  /\ pass[1].outcome = "none"
  /\ dependencyGraph' = removeCell(dependencyGraph, dirtyQueue, a).g
  /\ dirtyQueue' = removeCell(dependencyGraph, dirtyQueue, a).dq
  /\ UNCHANGED <<calculationOrder, maxIterations, formula, references, isCalculating, abortController, cells,
                 pass, ops, lastCall>>

GraphClear ==
  /\ pass[1].outcome = "none"
  /\ dependencyGraph' = EmptyGraph
  /\ dirtyQueue' = {}
  /\ calculationOrder' = <<>>
  /\ UNCHANGED <<maxIterations, formula, references, isCalculating, abortController, cells, pass, ops, lastCall>>

NextGraph ==
  \/ \E a \in Addr, l \in DepLists : GraphRegisterCell(a, l)
  \/ \E a \in Addr : GraphRemoveCell(a)
  \/ GraphClear
  \/ \E p \in Passes : Recalculate(p)

SpecGraph == InitGraph /\ [][NextGraph]_vars

\* ------------------------------------------------- graph-theoretic reference
Nodes(g) == DOMAIN g.node
DependsOnSet(g, x) == IF Has(g, x) THEN Range(g.node[x].dependsOn) ELSE {}
DependentsSet(g, x) == IF Has(g, x) THEN Range(g.node[x].dependents) ELSE {}

\* The addresses reachable from x by one or more dependsOn edges.
RECURSIVE GrowUp(_, _)
GrowUp(g, S) ==
  LET T == S \cup UNION {DependsOnSet(g, y) : y \in S}
  IN IF T = S THEN S ELSE GrowUp(g, T)
Upstream(g, x) == GrowUp(g, DependsOnSet(g, x))

\* The addresses reachable from x by one or more dependents edges.
RECURSIVE GrowDown(_, _)
GrowDown(g, S) ==
  LET T == S \cup UNION {DependentsSet(g, y) : y \in S}
  IN IF T = S THEN S ELSE GrowDown(g, T)
Downstream(g, x) == GrowDown(g, DependentsSet(g, x))

OnCycle(g, x) == x \in Upstream(g, x)
Cyclic(g) == \E x \in Nodes(g) : OnCycle(g, x)
NoDuplicates(s) == \A i, j \in 1..Len(s) : s[i] = s[j] => i = j

\* ------------------------------------------------------------------ claims

\* C1: bidirectional consistency.  In every reachable state, for every node X and every
\* Y in X.dependsOn, Y is a node and X is in Y.dependents; and for every node Y and every
\* X in Y.dependents, X is a node and Y is in X.dependsOn.
C1_BidirectionalConsistency ==
  LET g == dependencyGraph
  IN \A x \in Nodes(g) :
       /\ \A y \in Range(g.node[x].dependsOn) :
            Has(g, y) /\ x \in Range(g.node[y].dependents)
       /\ \A y \in Range(g.node[x].dependents) :
            Has(g, y) /\ x \in Range(g.node[y].dependsOn)

\* C1 witness: edges were added and dropped: a node depends on itself and on one other
\* node, while a third node is left with no edge in either direction.
C1_Witness ==
  LET g == dependencyGraph
  IN /\ \E x \in Nodes(g) :
          /\ x \in Range(g.node[x].dependsOn)
          /\ Len(g.node[x].dependsOn) = 2
     /\ \E y \in Nodes(g) : g.node[y].dependents = <<>> /\ g.node[y].dependsOn = <<>>

\* C2: for every reachable acyclic graph, topologicalSort() returns hasCycle = false and
\* an order that holds every node exactly once and every dependency before its dependent.
C2_AcyclicOrder ==
  LET g == dependencyGraph
      r == topologicalSort(g)
  IN ~Cyclic(g) =>
       /\ ~r.hasCycle
       /\ Range(r.order) = Nodes(g)
       /\ NoDuplicates(r.order)
       /\ \A x \in Nodes(g) : \A y \in DependsOnSet(g, x) :
            IndexOf(r.order, y) < IndexOf(r.order, x)

\* C2 witness: a pass has sorted an acyclic graph of three nodes in which one node has two
\* dependencies and the insertion order of the Map is not a valid evaluation order.
C2_Witness ==
  LET g == dependencyGraph
  IN /\ ~Cyclic(g)
     /\ Cardinality(Nodes(g)) = 3
     /\ \E x \in Nodes(g) : Len(g.node[x].dependsOn) = 2
     /\ \E x \in Nodes(g) : \E y \in DependsOnSet(g, x) : IndexOf(g.keys, x) < IndexOf(g.keys, y)
     /\ pass[1].outcome # "none"
     /\ calculationOrder = topologicalSort(g).order

\* C6: for every reachable graph, topologicalSort().hasCycle is true iff the graph has a
\* directed dependency cycle (a self-dependency counts), and the order then holds exactly
\* the nodes that neither lie on a cycle nor transitively depend on a node on a cycle.
C6_HasCycleIffCyclic ==
  LET g == dependencyGraph
      r == topologicalSort(g)
  IN /\ r.hasCycle <=> Cyclic(g)
     /\ r.hasCycle =>
          /\ NoDuplicates(r.order)
          /\ Range(r.order) =
               {x \in Nodes(g) : ~OnCycle(g, x) /\ \A y \in Upstream(g, x) : ~OnCycle(g, y)}

\* C6 witness: a pass has sorted a graph with a self-dependent node, a node outside every
\* cycle that depends on it, and a node that is free of cycles and so is in the order.
C6_Witness ==
  LET g == dependencyGraph
  IN /\ \E x \in Nodes(g) : x \in DependsOnSet(g, x)
     /\ \E x \in Nodes(g) : ~OnCycle(g, x) /\ \E y \in Upstream(g, x) : OnCycle(g, y)
     /\ pass[1].outcome # "none"
     /\ calculationOrder = topologicalSort(g).order
     /\ Len(calculationOrder) = 1

\* C7: for every reachable graph, detectCircularReferences() is empty iff the graph is
\* acyclic, so it is non-empty exactly when topologicalSort().hasCycle; and when three
\* nodes a, b, c form the cycle a -> b -> c -> a (each depending on just the next), some
\* returned cycle passes through all three.
C7_DetectIffCyclic ==
  LET g == dependencyGraph
      cycles == detectCircularReferences(g)
  IN /\ (cycles = <<>>) <=> ~Cyclic(g)
     /\ (cycles # <<>>) <=> topologicalSort(g).hasCycle
     /\ \A a, b, c \in Nodes(g) :
          (/\ Cardinality({a, b, c}) = 3
           /\ g.node[a].dependsOn = <<b>>
           /\ g.node[b].dependsOn = <<c>>
           /\ g.node[c].dependsOn = <<a>>)
          => \E i \in 1..Len(cycles) : {a, b, c} \subseteq Range(cycles[i])

\* C7 witness: a pass ran on the three-node cycle and returned its chain.
C7_Witness ==
  LET g == dependencyGraph
  IN /\ \E a, b, c \in Nodes(g) :
          /\ Cardinality({a, b, c}) = 3
          /\ g.node[a].dependsOn = <<b>>
          /\ g.node[b].dependsOn = <<c>>
          /\ g.node[c].dependsOn = <<a>>
     /\ pass[1].outcome = "resolved"
     /\ pass[1].stats.circularReferences = CyclesAsText(detectCircularReferences(g))
     /\ Len(pass[1].stats.circularReferences) = 1

\* C3: within one pass on an acyclic graph with no engine call made while it is
\* suspended, whenever the evaluator is in flight for a cell X, every earlier evaluator
\* call of the pass has completed, and no cell evaluated earlier in the pass depends,
\* directly or transitively, on X: a dependency evaluated in the pass comes first.
C3_DependenciesEvaluatedFirst ==
  LET g == dependencyGraph
  IN \A p \in Passes :
       pass[p].pc = "awaiting" =>
         LET log == pass[p].evalLog
             x == log[Len(log)]
         IN /\ x = pass[p].order[pass[p].pos]
            /\ \A i \in 1..(Len(log) - 1) :
                 /\ x \notin Upstream(g, log[i])
                 /\ log[i] # x
                 /\ ~g.node[log[i]].isCalculating

\* C3 witness: the evaluator is in flight for the third cell of a chain while both cells it
\* transitively depends on were evaluated before it in the same pass.
C3_Witness ==
  LET g == dependencyGraph
  IN \E p \in Passes :
       /\ pass[p].pc = "awaiting"
       /\ Len(pass[p].evalLog) = 3
       /\ g.node[pass[p].evalLog[3]].dependsOn = <<pass[p].evalLog[2]>>
       /\ g.node[pass[p].evalLog[2]].dependsOn = <<pass[p].evalLog[1]>>
       /\ IndexOf(g.keys, pass[p].evalLog[3]) < IndexOf(g.keys, pass[p].evalLog[1])

\* C4 (as claimed): when markDirty(X) returns for an address X that has a node, X and
\* every transitive dependent of X has isDirty = true.
C4_MarkDirtyReachesDependents ==
  LET g == dependencyGraph
  IN (lastCall.op = "markDirty" /\ Has(g, lastCall.address)) =>
       \A x \in {lastCall.address} \cup Downstream(g, lastCall.address) : g.node[x].isDirty

\* C5: if the graph has a dependency cycle when recalculate starts, the call invokes the
\* evaluator zero times, resolves in the same step with calculatedCells = 0 and a
\* non-empty circularReferences list, and leaves the graph (every isDirty flag) and the
\* dirty queue unchanged.
C5_WholePassAbortOnCycle ==
  [][\A p \in Passes :
       (Recalculate(p) /\ Cyclic(dependencyGraph)) =>
         /\ pass'[p].pc = "idle"
         /\ pass'[p].outcome = "resolved"
         /\ pass'[p].evalLog = <<>>
         /\ pass'[p].stats.calculatedCells = 0
         /\ pass'[p].stats.circularReferences # <<>>
         /\ dependencyGraph' = dependencyGraph
         /\ dirtyQueue' = dirtyQueue]_vars

\* C5 witness: a pass has resolved on a graph with a cycle next to a dirty node with
\* content that lies on no cycle and depends on none, and the dirty queue is not empty.
C5_Witness ==
  LET g == dependencyGraph
  IN /\ Cyclic(g)
     /\ pass[1].outcome = "resolved"
     /\ pass[1].stats.circularReferences = CyclesAsText(detectCircularReferences(g))
     /\ pass[1].stats.circularReferences # <<>>
     /\ pass[1].stats.calculatedCells = 0
     /\ \E x \in Nodes(g) :
          /\ x \in DOMAIN cells
          /\ g.node[x].isDirty
          /\ ~OnCycle(g, x)
          /\ \A y \in Upstream(g, x) : ~OnCycle(g, y)

\* C8 (as claimed): after recalculate returns on a graph that contains cycles, every
\* address that lies on some dependency cycle and has an entry in the cell store has
\* displayValue '#CIRCULAR!' and the circular-reference error.
C8_CycleMembersMarked ==
  LET g == dependencyGraph
  IN (lastCall.op = "recalculate" /\ NoPassInFlight /\ Cyclic(g)) =>
       \A a \in Nodes(g) :
         (OnCycle(g, a) /\ a \in DOMAIN cells) =>
           /\ cells[a].displayValue = "#CIRCULAR!"
           /\ cells[a].error = "Circular reference detected"

\* C9 (as claimed): on an acyclic graph in which more than maxIterations nodes are dirty
\* and have content in the store when the pass starts, recalculate rejects with the
\* max-iterations error instead of resolving.
C9_RunawayGuardRejects ==
  \A p \in Passes :
    (/\ pass[p].pc = "idle"
     /\ pass[p].outcome # "none"
     /\ pass[p].stats.circularReferences = <<>>
     /\ pass[p].dirtyWithContent > maxIterations)
    => pass[p].outcome = "rejected: max iterations"

\* C10 (as claimed): in any single pass the evaluator is invoked at most maxIterations
\* times, whether the evaluator calls return or throw.
C10_InvocationsCapped ==
  \A p \in Passes : Len(pass[p].evalLog) <= maxIterations

\* The ceiling does take effect: some pass rejects with the max-iterations error.
RunawayRejectReached == \E p \in Passes : pass[p].outcome = "rejected: max iterations"

\* ---------------------------------------------------------------- C11
\* The indices after the pass's position whose address is a dirty node with content.
LaterDirty(p) ==
  {i \in (pass[p].pos + 1)..Len(pass[p].order) :
     /\ Has(dependencyGraph, pass[p].order[i])
     /\ pass[p].order[i] \in DOMAIN cells
     /\ dependencyGraph.node[pass[p].order[i]].isDirty}

Rejections ==
  {"rejected: aborted", "rejected: max iterations", "rejected: TypeError",
   "rejected: evaluator"}

\* C11: when the evaluator throws for a cell, that cell's displayValue becomes '#ERROR!',
\* the pass does not reject in that step, and if a later address of the order is dirty
\* with content the evaluator is invoked for the first such address in the same step; a
\* throw leaves the count of calculated cells as it was.
C11_EvaluatorFailureLocalized ==
  [][\A p \in Passes :
       EvaluatorThrows(p) =>
         LET a == pass[p].order[pass[p].pos]
             later == LaterDirty(p) \ {pass[p].pos}
         IN /\ cells'[a].displayValue = "#ERROR!"
            /\ pass'[p].outcome \notin Rejections
            /\ pass'[p].stats.calculatedCells = pass[p].stats.calculatedCells
            /\ later # {} =>
                 LET i == CHOOSE i \in later : \A j \in later : i <= j
                 IN /\ pass'[p].pc = "awaiting"
                    /\ pass'[p].pos = i
                    /\ pass'[p].evalLog = Append(pass[p].evalLog, pass[p].order[i])
            /\ later = {} => pass'[p].outcome = "resolved"]_vars

\* C11 witness: a pass resolved in which the evaluator threw for the first cell and
\* returned for a cell evaluated after it.
C11_Witness ==
  \E p \in Passes :
    /\ pass[p].outcome = "resolved"
    /\ Len(pass[p].evalLog) >= 2
    /\ cells[pass[p].evalLog[1]].displayValue = "#ERROR!"
    /\ cells[pass[p].evalLog[2]].displayValue \in Values

\* ---------------------------------------------------------------- C12
\* C12 (as claimed): a recalculate call rejects only if abort() was called while it was
\* in flight or its count of calculated cells exceeded the ceiling; every other call,
\* overlapping calls included, resolves with its statistics.
C12_OnlyAbortAndCeilingFatal ==
  \A p \in Passes :
    pass[p].outcome \in Rejections =>
      \/ \E i \in 1..Len(pass[p].during) : pass[p].during[i].op = "abort"
      \/ pass[p].stats.calculatedCells > maxIterations

\* ---------------------------------------------------------------- C13
\* The recalculate call p never overlapped another one.
SinglePass(p) ==
  /\ pass[p].concurrent = {}
  /\ \A q \in Passes : p \notin pass[q].concurrent

AbortedDuring(p) == \E i \in 1..Len(pass[p].during) : pass[p].during[i].op = "abort"

Resumes(p) == (\E r \in PlainResults : EvaluatorReturns(p, r)) \/ EvaluatorThrows(p)

\* C13: when abort() was called while a recalculate call that overlaps no other is
\* suspended in the evaluator, the step that resumes it still writes the result of the
\* dispatched evaluator call and cleans that node, invokes the evaluator for no further
\* cell, and rejects with the abort error if a later address of the order is dirty with
\* content (it resolves when there is none).
C13_CooperativeCancellation ==
  [][\A p \in Passes :
       (Resumes(p) /\ SinglePass(p) /\ AbortedDuring(p)) =>
         LET a == pass[p].order[pass[p].pos]
         IN /\ cells'[a].displayValue \in Values \cup {"#ERROR!"}
            /\ ~dependencyGraph'.node[a].isDirty
            /\ pass'[p].evalLog = pass[p].evalLog
            /\ pass'[p].pc = "idle"
            /\ pass'[p].outcome =
                 IF LaterDirty(p) # {} THEN "rejected: aborted" ELSE "resolved"]_vars

\* C13 witness: a call that overlapped no other was aborted while suspended in its first
\* evaluator call; the result was written, and the call rejected at the next dirty cell
\* with content, which was never evaluated.
C13_Witness ==
  \E p \in Passes :
    /\ SinglePass(p)
    /\ AbortedDuring(p)
    /\ pass[p].outcome = "rejected: aborted"
    /\ Len(pass[p].evalLog) = 1
    /\ cells[pass[p].evalLog[1]].displayValue \in Values
    /\ \E a \in DOMAIN cells :
         /\ Has(dependencyGraph, a)
         /\ dependencyGraph.node[a].isDirty
         /\ cells[a].displayValue = ""

\* ---------------------------------------------------------------- C14
\* C14: in the step in which a recalculate call rejects because of cancellation or the
\* ceiling, the only cell and the only node that change are those of the evaluator call
\* it resumed from (the result is written and the node cleaned): every other cell keeps
\* its display value, every other node keeps its isDirty flag, the dirty queue is not
\* cleared, and a node still has isCalculating = true only if another call is suspended
\* in the evaluator for it.  When no call was made during the suspension, every cell the
\* call evaluated holds the value written for it and its node is clean.
C14_RejectionKeepsEarlierWork ==
  [][\A p \in Passes :
       (/\ pass[p].outcome = "none"
        /\ pass'[p].outcome \in {"rejected: aborted", "rejected: max iterations"}) =>
         /\ pass[p].pc = "awaiting"
         /\ LET a == pass[p].order[pass[p].pos]
                g == dependencyGraph'
            IN /\ dirtyQueue' = dirtyQueue
               /\ DOMAIN cells' = DOMAIN cells
               /\ \A x \in DOMAIN cells \ {a} : cells'[x] = cells[x]
               /\ cells'[a].displayValue \in Values \cup {"#ERROR!"}
               /\ g.keys = dependencyGraph.keys
               /\ \A x \in Nodes(g) \ {a} : g.node[x] = dependencyGraph.node[x]
               /\ ~g.node[a].isDirty
               /\ \A x \in Nodes(g) :
                    g.node[x].isCalculating =>
                      \E q \in Passes \ {p} :
                        pass[q].pc = "awaiting" /\ pass[q].order[pass[q].pos] = x
               /\ (SinglePass(p) /\ \A i \in 1..Len(pass[p].during) :
                                      pass[p].during[i].op # "markDirty") =>
                    \A i \in 1..Len(pass[p].evalLog) :
                      /\ cells'[pass[p].evalLog[i]].displayValue \in Values \cup {"#ERROR!"}
                      /\ ~g.node[pass[p].evalLog[i]].isDirty]_vars

\* C14 witness: a call rejected by cancellation after two evaluations; the second cell is
\* written and clean, a third node with content is still dirty and was never evaluated,
\* the dirty queue still holds an address, and no node has isCalculating = true.
C14_Witness ==
  \E p \in Passes :
    /\ pass[p].outcome = "rejected: aborted"
    /\ Len(pass[p].evalLog) = 2
    /\ cells[pass[p].evalLog[2]].displayValue \in Values
    /\ ~dependencyGraph.node[pass[p].evalLog[2]].isDirty
    /\ \E a \in DOMAIN cells :
         /\ Has(dependencyGraph, a)
         /\ a \notin Range(pass[p].evalLog)
         /\ dependencyGraph.node[a].isDirty
    /\ dirtyQueue # {}
    /\ \A x \in Nodes(dependencyGraph) : ~dependencyGraph.node[x].isCalculating

\* The ceiling, too, ends a call after earlier cells were written.
C14_CeilingReached ==
  \E p \in Passes :
    /\ pass[p].outcome = "rejected: max iterations"
    /\ \A i \in 1..Len(pass[p].evalLog) : ~dependencyGraph.node[pass[p].evalLog[i]].isDirty
    /\ \E a \in DOMAIN cells : Has(dependencyGraph, a) /\ dependencyGraph.node[a].isDirty

\* ---------------------------------------------------------------- C15
\* The A1-style name of a zero-based CellAddress, written out.
RefCols == <<"A", "B", "C", "D">>
RefRows == <<"1", "2", "3", "4">>
RefAddress(row, col) == RefCols[col + 1] \o RefRows[row + 1]
Rectangle(range) ==
  {RefAddress(row, col) : row \in range.start.row..range.end.row,
                          col \in range.start.col..range.end.col}
WellFormed(range) ==
  range.start.row <= range.end.row /\ range.start.col <= range.end.col

\* What the pass does mark: exactly the rows x columns addresses of the rectangle are
\* flagged (cells outside it keep their flags and the store gains no other key), and
\* each carries the address of the range's start as spillSource.
SpillMarksRectangle ==
  [][\A p \in Passes : \A r \in SpillResults :
       (EvaluatorReturns(p, r) /\ WellFormed(r.spillRange[1])) =>
         LET range == r.spillRange[1]
             rect == Rectangle(range)
         IN /\ Cardinality(rect) = (range.end.row - range.start.row + 1)
                                    * (range.end.col - range.start.col + 1)
            /\ DOMAIN cells' = DOMAIN cells \cup rect
            /\ \A x \in rect :
                 /\ cells'[x].isSpill
                 /\ cells'[x].spillSource = RefAddress(range.start.row, range.start.col)
            /\ \A x \in DOMAIN cells \ rect :
                 /\ cells'[x].isSpill = cells[x].isSpill
                 /\ cells'[x].spillSource = cells[x].spillSource]_vars

\* C15 (as claimed): when the evaluator result for cell X carries a spillRange with
\* start <= end in both dimensions, the step that handles the result leaves every address
\* of the rectangle in the store flagged as a spill member with spillSource = X.
C15_SpillSourceIsOrigin ==
  [][\A p \in Passes : \A r \in SpillResults :
       (EvaluatorReturns(p, r) /\ WellFormed(r.spillRange[1])) =>
         LET X == pass[p].order[pass[p].pos]
         IN \A x \in Rectangle(r.spillRange[1]) :
              /\ x \in DOMAIN cells'
              /\ cells'[x].isSpill
              /\ cells'[x].spillSource = X]_vars

\* ---------------------------------------------------------------- C16
\* C16 (as claimed): once no pass is in flight, every address inside the spill range
\* recorded on a node is in the store and displays a computed value.
C16_SpillValuePropagated ==
  NoPassInFlight =>
    \A X \in Nodes(dependencyGraph) :
      dependencyGraph.node[X].spillRange # <<>> =>
        \A x \in Rectangle(dependencyGraph.node[X].spillRange[1]) :
          x \in DOMAIN cells /\ cells[x].displayValue \in Values

\* ---------------------------------------------------------------- C17
\* The step in which the recalculate call p resolves on an acyclic graph, no engine call
\* having been made while it was suspended.
ResolvesUndisturbed(p) ==
  /\ pass[p].outcome = "none"
  /\ pass'[p].outcome = "resolved"
  /\ ~Cyclic(dependencyGraph)
  /\ pass'[p].during = <<>>
  /\ pass'[p].concurrent = {}
  /\ \A q \in Passes : p \notin pass'[q].concurrent

\* C17 (amended): when recalculate resolves on an acyclic graph with no engine call made
\* during its suspension, every node whose address had content in the store when the
\* call started is clean, every node the evaluator was invoked for is clean (also when it
\* threw), and every other node keeps the isDirty flag it had at the start; a node whose
\* address is not in the store at the end was never evaluated.  A spill may add an
\* address to the store during the pass: its node is evaluated only if the loop had not
\* passed it yet.
C17_DirtyToClean ==
  [][\A p \in Passes :
       ResolvesUndisturbed(p) =>
         LET g == dependencyGraph'
             P == pass'[p]
         IN \A x \in Nodes(g) :
              /\ x \in P.startStore => ~g.node[x].isDirty
              /\ x \in Range(P.evalLog) => ~g.node[x].isDirty
              /\ x \notin Range(P.evalLog) => (g.node[x].isDirty <=> x \in P.startDirty)
              /\ x \notin DOMAIN cells' => x \notin Range(P.evalLog)]_vars

\* C17 witness: a call resolved undisturbed; the evaluator threw for one cell, whose node
\* is clean, returned for another, and a node without content in the store is still dirty.
C17_Witness ==
  \E p \in Passes :
    /\ pass[p].outcome = "resolved"
    /\ pass[p].during = <<>>
    /\ ~Cyclic(dependencyGraph)
    /\ \E x, y \in Range(pass[p].evalLog) :
         /\ cells[x].displayValue = "#ERROR!" /\ ~dependencyGraph.node[x].isDirty
         /\ cells[y].displayValue \in Values /\ ~dependencyGraph.node[y].isDirty
    /\ \E z \in Nodes(dependencyGraph) :
         z \notin DOMAIN cells /\ dependencyGraph.node[z].isDirty

\* C17 (as claimed): when recalculate resolves on an acyclic graph with no engine call
\* made during its suspension, every node whose address has content in the store is
\* clean and every node without content keeps its previous isDirty flag.
C17_ContentMeansClean ==
  [][\A p \in Passes :
       ResolvesUndisturbed(p) =>
         LET g == dependencyGraph'
         IN \A x \in Nodes(g) :
              /\ x \in DOMAIN cells' => ~g.node[x].isDirty
              /\ x \notin DOMAIN cells' =>
                   (g.node[x].isDirty <=> x \in pass'[p].startDirty)]_vars

\* ---------------------------------------------------------------- C18
\* C18: in the step in which a recalculate call on an acyclic graph completes normally,
\* the dirty queue becomes empty, whatever markDirty added to it while the call was
\* suspended and whichever nodes are still dirty.
C18_QueueClearedOnCompletion ==
  [][\A p \in Passes :
       (/\ pass[p].outcome = "none"
        /\ pass'[p].outcome = "resolved"
        /\ ~Cyclic(dependencyGraph)) => dirtyQueue' = {}]_vars

\* C18 witness: while a call was suspended, markDirty re-dirtied a cell the call had
\* already evaluated, which put its address in the queue; the call then completed, the
\* queue is empty, that node is still dirty, and so is a node the call never evaluated.
C18_Witness ==
  \E p \in Passes : \E x \in Range(pass[p].evalLog) :
    /\ pass[p].outcome = "resolved"
    /\ ~Cyclic(dependencyGraph)
    /\ lastCall = Call("markDirty", x)
    /\ pass[p].during = <<Call("markDirty", x)>>
    /\ dependencyGraph.node[x].isDirty
    /\ dirtyQueue = {}
    /\ \E z \in Nodes(dependencyGraph) :
         z \notin Range(pass[p].evalLog) /\ dependencyGraph.node[z].isDirty

\* ---------------------------------------------------------------- C19
\* C19 (as claimed): whenever no pass is in flight, an address is in the dirty queue if
\* and only if its node has isDirty = true.
C19_QueueIsDirtySet ==
  NoPassInFlight =>
    \A a \in Addr :
      a \in dirtyQueue <=> (Has(dependencyGraph, a) /\ dependencyGraph.node[a].isDirty)

\* ---------------------------------------------------------------- C20
\* C20: from every reachable state and for every address X, markDirty(X) applied twice
\* leaves the same isDirty flags (the same graph) and the same dirty queue as applied once.
C20_MarkDirtyIdempotent ==
  \A X \in Addr :
    LET once == markDirty(dependencyGraph, dirtyQueue, X)
    IN markDirty(once.g, once.dq, X) = once

\* C20 witness: markDirty was just called on a node that a pass had cleaned; the node and
\* a dependent of it are dirty and queued, and a further call changes nothing.
C20_Witness ==
  /\ lastCall.op = "markDirty"
  /\ Has(dependencyGraph, lastCall.address)
  /\ LET X == lastCall.address
     IN /\ X \in dirtyQueue
        /\ \E y \in DependentsSet(dependencyGraph, X) :
             y # X /\ y \in dirtyQueue /\ dependencyGraph.node[y].isDirty
        /\ markDirty(dependencyGraph, dirtyQueue, X) = [g |-> dependencyGraph, dq |-> dirtyQueue]

\* ---------------------------------------------------------------- C21
\* C21: from every reachable state and for every address X, markDirty(X) leaves the node
\* set, the insertion order and every node's edges (and its other fields) as they are;
\* it changes the isDirty flag and the dirty-queue membership of no address other than X
\* and the transitive dependents of X, so a dependency of X that is not also a dependent
\* keeps both; and it changes nothing when X has no node.
C21_MarkDirtyFrame ==
  \A X \in Addr :
    LET g == dependencyGraph
        r == markDirty(g, dirtyQueue, X)
        reach == {X} \cup Downstream(g, X)
    IN /\ r.g.keys = g.keys
       /\ DOMAIN r.g.node = DOMAIN g.node
       /\ \A y \in Nodes(g) :
            /\ r.g.node[y].dependsOn = g.node[y].dependsOn
            /\ r.g.node[y].dependents = g.node[y].dependents
            /\ r.g.node[y].isCalculating = g.node[y].isCalculating
            /\ r.g.node[y].spillRange = g.node[y].spillRange
            /\ y \notin reach => r.g.node[y].isDirty = g.node[y].isDirty
       /\ \A y \in Addr \ reach : y \in r.dq <=> y \in dirtyQueue
       /\ ~Has(g, X) => r = [g |-> g, dq |-> dirtyQueue]

\* C21 witness: markDirty was just called on a node that depends on another one which is
\* not among its dependents; the node is dirty and queued, the dependency is clean and
\* not queued.
C21_Witness ==
  /\ lastCall.op = "markDirty"
  /\ Has(dependencyGraph, lastCall.address)
  /\ LET X == lastCall.address
     IN /\ dependencyGraph.node[X].isDirty
        /\ X \in dirtyQueue
        /\ \E b \in DependsOnSet(dependencyGraph, X) :
             /\ b \notin Downstream(dependencyGraph, X)
             /\ ~dependencyGraph.node[b].isDirty
             /\ b \notin dirtyQueue

\* ---------------------------------------------------------------- C22
\* C22: on every reachable graph, for every address X and every list L, after
\* registerCell(X, L) the node X depends on exactly the addresses in L; for every node Y,
\* X is in Y.dependents if and only if Y is in L; the nodes are the old ones with X and
\* the addresses of L; and every other node keeps its dependsOn set, its dependents other
\* than X and its isDirty flag (a node created for an address of L starts with no
\* dependency and dirty).
C22_RegisterReplacesEdges ==
  \A X \in Addr : \A L \in DepLists :
    LET g == dependencyGraph
        h == registerCell(g, X, L)
    IN /\ Nodes(h) = Nodes(g) \cup {X} \cup Range(L)
       /\ Range(h.keys) = Nodes(h) /\ NoDuplicates(h.keys)
       /\ Range(h.node[X].dependsOn) = Range(L)
       /\ NoDuplicates(h.node[X].dependsOn)
       /\ \A Y \in Nodes(h) :
            /\ X \in Range(h.node[Y].dependents) <=> Y \in Range(L)
            /\ NoDuplicates(h.node[Y].dependents)
            /\ Y # X =>
                 /\ Range(h.node[Y].dependents) \ {X} = DependentsSet(g, Y) \ {X}
                 /\ h.node[Y].dependsOn = IF Has(g, Y) THEN g.node[Y].dependsOn ELSE <<>>
                 /\ h.node[Y].isDirty = IF Has(g, Y) THEN g.node[Y].isDirty ELSE TRUE
       /\ h.node[X].isDirty = IF Has(g, X) THEN g.node[X].isDirty ELSE TRUE

\* C22 witness: a node was registered again with another list: it depends on one node
\* only, and a node inserted before that one, which it must have depended on or been
\* registered after, is left without any edge.
C22_Witness ==
  LET g == dependencyGraph
  IN \E X, B, C \in Nodes(g) :
       /\ Cardinality({X, B, C}) = 3
       /\ g.node[X].dependsOn = <<B>>
       /\ g.node[B].dependents = <<X>>
       /\ g.node[C].dependents = <<>> /\ g.node[C].dependsOn = <<>>
       /\ IndexOf(g.keys, X) < IndexOf(g.keys, C)
       /\ IndexOf(g.keys, C) < IndexOf(g.keys, B)

\* ---------------------------------------------------------------- C23
\* C23: in every reachable state and for every address X, after removeCell(X) X is no node,
\* is in no remaining node's dependsOn or dependents and is not in the dirty queue; every
\* other node is still a node in the same insertion order, with the same isDirty flag and
\* the same dependsOn and dependents apart from X; every other address is in the dirty
\* queue exactly if it was; and when X has no node the graph and the queue are the same.
C23_RemoveCellFrame ==
  \A X \in Addr :
    LET g == dependencyGraph
        r == removeCell(g, dirtyQueue, X)
    IN /\ Nodes(r.g) = Nodes(g) \ {X}
       /\ r.g.keys = SetDelete(g.keys, X)
       /\ X \notin r.dq
       /\ r.dq = dirtyQueue \ {X}
       /\ \A Y \in Nodes(r.g) :
            /\ X \notin Range(r.g.node[Y].dependsOn)
            /\ X \notin Range(r.g.node[Y].dependents)
            /\ r.g.node[Y].dependsOn = SetDelete(g.node[Y].dependsOn, X)
            /\ r.g.node[Y].dependents = SetDelete(g.node[Y].dependents, X)
            /\ r.g.node[Y].isDirty = g.node[Y].isDirty
            /\ r.g.node[Y].isCalculating = g.node[Y].isCalculating
       /\ ~Has(g, X) => r = [g |-> g, dq |-> dirtyQueue]

\* C23 witness: a queued node with a dependency and a dependent, next to a clean node and
\* another queued node, so that removing it prunes both directions and the queue.
C23_Witness ==
  LET g == dependencyGraph
  IN \E X \in Nodes(g) :
       /\ X \in dirtyQueue
       /\ \E B \in DependsOnSet(g, X) \ {X} : ~g.node[B].isDirty
       /\ \E D \in DependentsSet(g, X) \ {X} : D \in dirtyQueue /\ g.node[D].isDirty

\* ---------------------------------------------------------------- C24
\* The basic chain scenario has run: the engine was fresh, the three registrations were
\* made in order with content for A1, B1 and C1 in the store, and a recalculate whose
\* evaluator returned the referenced value 5 for every call it received has resolved.
ChainScenarioDone ==
  LET g == dependencyGraph
  IN /\ ops = 4
     /\ lastCall = Call("recalculate", "")
     /\ pass[1].outcome = "resolved"
     /\ pass[1].startStore = {"A1", "B1", "C1"}
     /\ g.keys = <<"A1", "B1", "C1">>
     /\ g.node["A1"].dependsOn = <<>>
     /\ g.node["B1"].dependsOn = <<"A1">>
     /\ g.node["C1"].dependsOn = <<"B1">>
     /\ pass[1].startDirty = {"A1", "B1", "C1"}
     /\ \A a \in DOMAIN cells : cells[a].error = "none"

\* C24 (as claimed): when the basic chain scenario has run, stats.calculatedCells = 2, the
\* evaluator was invoked for B1 and C1 only, and B1 and C1 display 5.
C24_ChainCalculatesTwo ==
  ChainScenarioDone =>
    /\ pass[1].stats.calculatedCells = 2
    /\ pass[1].evalLog = <<"B1", "C1">>
    /\ cells["B1"].displayValue = "5"
    /\ cells["C1"].displayValue = "5"

\* What the code does in the scenario: the constant cell A1 is evaluated as well.
ChainCalculatesThree ==
  ChainScenarioDone =>
    /\ pass[1].stats.calculatedCells = 3
    /\ pass[1].evalLog = <<"A1", "B1", "C1">>
    /\ cells["B1"].displayValue = "5"
    /\ cells["C1"].displayValue = "5"

\* ---------------------------------------------------------------- C25
\* The cycle scenario has run: on a fresh engine registerCell(A1, [B1]) and
\* registerCell(B1, [A1]) were followed by a recalculate, whatever the store holds.
CycleScenarioDone ==
  LET g == dependencyGraph
  IN /\ ops = 3
     /\ lastCall = Call("recalculate", "")
     /\ pass[1].outcome # "none"
     /\ g.keys = <<"A1", "B1">>
     /\ g.node["A1"].dependsOn = <<"B1">>
     /\ g.node["B1"].dependsOn = <<"A1">>

\* C25: when the cycle scenario has run, the call has resolved with exactly one entry in
\* stats.circularReferences, the text "A1 → B1 → A1", and with stats.calculatedCells = 0;
\* the evaluator was never invoked.
C25_CycleScenario ==
  CycleScenarioDone =>
    /\ pass[1].outcome = "resolved"
    /\ pass[1].stats.circularReferences = <<"A1 → B1 → A1">>
    /\ pass[1].stats.calculatedCells = 0
    /\ pass[1].evalLog = <<>>

\* C25 witness: the cycle scenario has run with content for both cells in the store.
C25_Witness == CycleScenarioDone /\ {"A1", "B1"} \subseteq DOMAIN cells

\* ---------------------------------------------------------------- C26
\* The address whose evaluator call recalculate call p is suspended in.
InFlight(p) == pass[p].order[pass[p].pos]

\* C26 (as claimed): no two recalculate calls are ever suspended in evaluator calls for the
\* same address, and a node's isCalculating flag is true exactly while some call is
\* suspended in the evaluator call for it.
C26_NoReentrantEvaluation ==
  /\ \A p, q \in Passes :
       (p # q /\ pass[p].pc = "awaiting" /\ pass[q].pc = "awaiting")
         => InFlight(p) # InFlight(q)
  /\ \A a \in Nodes(dependencyGraph) :
       dependencyGraph.node[a].isCalculating
         <=> \E p \in Passes : pass[p].pc = "awaiting" /\ InFlight(p) = a

\* ---------------------------------------------------------------- C27
\* C27: on every reachable graph, cyclic or not, and for every address X,
\* getDependencyChain(X) returns as upstream, without repetition, exactly the nodes
\* reachable from X by one or more dependsOn edges and as downstream exactly the nodes
\* reachable by one or more dependents edges; X is in either list exactly when it lies on
\* a cycle; and both lists are empty when X has no node.
C27_ChainIsClosure ==
  \A X \in Addr :
    LET g == dependencyGraph
        chain == getDependencyChain(g, X)
    IN /\ Range(chain.upstream) = Upstream(g, X)
       /\ Range(chain.downstream) = Downstream(g, X)
       /\ NoDuplicates(chain.upstream) /\ NoDuplicates(chain.downstream)
       /\ X \in Range(chain.upstream) <=> OnCycle(g, X)
       /\ X \in Range(chain.downstream) <=> OnCycle(g, X)
       /\ ~Has(g, X) => chain = [upstream |-> <<>>, downstream |-> <<>>]

\* C27 witness: a node on a cycle whose upstream and downstream closures both hold a node
\* that is no direct neighbour in that direction.
C27_Witness ==
  LET g == dependencyGraph
  IN \E X \in Nodes(g) :
       /\ OnCycle(g, X)
       /\ Range(getDependencyChain(g, X).upstream) \ DependsOnSet(g, X) # {}
       /\ Range(getDependencyChain(g, X).downstream) \ DependentsSet(g, X) # {}

\* ---------------------------------------------------------------- C28
\* C28: no step of the engine, and so no step of a recalculate call, whether it runs alone
\* or overlaps another call and whatever markDirty and abort calls are made meanwhile,
\* changes from true to false the isDirty flag of a node that lies on a dependency cycle.
C28_StuckDirty ==
  [][\A a \in Addr :
       (/\ Has(dependencyGraph, a)
        /\ OnCycle(dependencyGraph, a)
        /\ dependencyGraph.node[a].isDirty
        /\ Has(dependencyGraph', a))
         => dependencyGraph'.node[a].isDirty]_vars

\* C28 witness: two recalculate calls have returned on a graph with a cycle, and a node on
\* the cycle that has content in the store is still dirty, next to a dirty node with
\* content that is on no cycle.
C28_Witness ==
  LET g == dependencyGraph
  IN /\ pass[1].outcome = "resolved" /\ pass[1].stats.circularReferences # <<>>
     /\ pass[2].outcome = "resolved" /\ pass[2].stats.circularReferences # <<>>
     /\ \E a \in Nodes(g) : OnCycle(g, a) /\ g.node[a].isDirty /\ a \in DOMAIN cells
     /\ \E b \in Nodes(g) : ~OnCycle(g, b) /\ g.node[b].isDirty /\ b \in DOMAIN cells

\* ---------------------------------------------------------------- C29
\* The step in which the recalculate call p settles.
Settles(p) == pass[p].outcome = "none" /\ pass'[p].outcome # "none"

\* C29 (as claimed): a markDirty(X) call made while some recalculate call is suspended in
\* the evaluator call for X changes no isDirty flag; and when a recalculate call during
\* which such a markDirty(X) was made settles, X is clean and not in the dirty queue.
C29_MidPassEditLost ==
  [][/\ \A a \in Addr :
          (/\ MarkDirtyDuringPass(a)
           /\ \E p \in Passes : pass[p].pc = "awaiting" /\ InFlight(p) = a)
            => \A y \in Nodes(dependencyGraph) :
                 dependencyGraph'.node[y].isDirty = dependencyGraph.node[y].isDirty
     /\ \A p \in Passes :
          Settles(p) =>
            \A x \in pass'[p].editedInFlight :
              ~dependencyGraph'.node[x].isDirty /\ x \notin dirtyQueue']_vars

\* C29 (amended): a markDirty(X) call made while a recalculate call that overlaps no other
\* is suspended in the evaluator call for X changes neither the graph nor the dirty queue;
\* and when such a recalculate call settles, that markDirty(X) having been the only call
\* made while it was suspended, X is clean, and the dirty queue is empty if the call
\* resolves and as it was before the step if it rejects.
C29_MidPassEditLostOnSinglePass ==
  [][/\ \A a \in Addr : \A p \in Passes :
          (/\ MarkDirtyDuringPass(a)
           /\ pass[p].pc = "awaiting" /\ InFlight(p) = a
           /\ SinglePass(p))
            => dependencyGraph' = dependencyGraph /\ dirtyQueue' = dirtyQueue
     /\ \A p \in Passes :
          (/\ Settles(p)
           /\ pass'[p].concurrent = {} /\ \A q \in Passes : p \notin pass'[q].concurrent
           /\ Len(pass'[p].during) = 1)
            => \A x \in pass'[p].editedInFlight :
                 /\ ~dependencyGraph'.node[x].isDirty
                 /\ pass'[p].outcome = "resolved" => dirtyQueue' = {}
                 /\ pass'[p].outcome # "resolved" => dirtyQueue' = dirtyQueue]_vars

\* C29 witness: a recalculate call that overlapped no other has resolved after evaluating
\* two cells, the only call made meanwhile was a markDirty for the cell being evaluated,
\* and that cell is clean and not queued.
C29_Witness ==
  \E p \in Passes : \E x \in Nodes(dependencyGraph) :
    /\ pass[p].outcome = "resolved"
    /\ SinglePass(p)
    /\ pass[p].during = <<Call("markDirty", x)>>
    /\ pass[p].editedInFlight = {x}
    /\ Len(pass[p].evalLog) >= 2
    /\ ~dependencyGraph.node[x].isDirty
    /\ x \notin dirtyQueue

\* The rejecting case of the amended statement: the call rejected after such a markDirty.
MidPassEditThenRejected ==
  \E p \in Passes :
    /\ pass[p].outcome \in Rejections
    /\ SinglePass(p)
    /\ Len(pass[p].during) = 1
    /\ pass[p].editedInFlight # {}

\* ---------------------------------------------------------------- C30
\* Reference reading of a cell reference: the column and row whose name it is, found by
\* search in a grid that holds every reference of the formulas above.
MaxRefCol == 28
MaxRefRow == 11
RefName(col, row) ==
  (IF col <= 26 THEN Letters[col]
   ELSE Letters[(col - 1) \div 26] \o Letters[((col - 1) % 26) + 1]) \o ToString(row)
RefCoordinates(t) ==
  CHOOSE rc \in [col : 1..MaxRefCol, row : 0..MaxRefRow] : RefName(rc.col, rc.row) = Text(t)
Between(a, b) == {n \in 0..(MaxRefCol + MaxRefRow) : (a <= n /\ n <= b) \/ (b <= n /\ n <= a)}
\* The addresses of the rectangle spanned by the corners of a range token.
RangeRectangle(token) ==
  LET s == RefCoordinates(token.start)
      e == RefCoordinates(token.end)
  IN {RefName(c, r) : c \in Between(s.col, e.col), r \in Between(s.row, e.row)}
Abs(n) == IF n >= 0 THEN n ELSE 0 - n
RangeSize(token) ==
  LET s == RefCoordinates(token.start)
      e == RefCoordinates(token.end)
  IN (Abs(s.row - e.row) + 1) * (Abs(s.col - e.col) + 1)

\* C30: after extractReferences(formula), for every range token START:END of the formula
\* the expansion pushes exactly the (|rowDiff|+1) x (|colDiff|+1) addresses of the
\* rectangle spanned by the two corners, each once, in whichever order the corners come,
\* and all of them are in the result; the result holds no address twice and is, as a
\* set, the single references together with the rectangles; and for '=SUM(A1:A3)+B5'
\* the result is the set {A1, A2, A3, B5}.
C30_RangeExpansion ==
  lastCall.op = "extractReferences" =>
    LET tokens == RangeMatches(formula, 1)
    IN /\ \A i \in 1..Len(tokens) :
            LET cellsOf == expandRange(tokens[i].start, tokens[i].end)
            IN /\ Range(cellsOf) = RangeRectangle(tokens[i])
               /\ Len(cellsOf) = RangeSize(tokens[i])
               /\ NoDuplicates(cellsOf)
               /\ RangeRectangle(tokens[i]) \subseteq Range(references)
       /\ NoDuplicates(references)
       /\ Range(references) =
            Range(CellMatches(formula, 1))
              \cup UNION {RangeRectangle(tokens[i]) : i \in 1..Len(tokens)}
       /\ formula = ExampleFormula => Range(references) = {"A1", "A2", "A3", "B5"}

\* C30 witness: the result for a formula with a range whose start lies below and to the
\* right of its end and spans more than one row and more than one column.
C30_Witness ==
  /\ lastCall.op = "extractReferences"
  /\ \E i \in 1..Len(RangeMatches(formula, 1)) :
       LET s == RefCoordinates(RangeMatches(formula, 1)[i].start)
           e == RefCoordinates(RangeMatches(formula, 1)[i].end)
       IN s.row > e.row /\ s.col > e.col
  /\ Len(references) >= 4

\* The scenario of the specification has run.
ExampleExtracted ==
  /\ lastCall.op = "extractReferences"
  /\ formula = ExampleFormula
  /\ references = <<"A1", "A3", "B5", "A2">>

\* ---------------------------------------------------------------- C31
\* C31: on every reachable graph, every sequence detectCircularReferences returns has at
\* least two entries, begins and ends with the same address, holds only addresses of
\* nodes, and each entry after the first is in the dependsOn set of the entry before it.
C31_CyclesAreClosedPaths ==
  LET g == dependencyGraph
      cycles == detectCircularReferences(g)
  IN \A i \in 1..Len(cycles) :
       LET c == cycles[i]
       IN /\ Len(c) >= 2
          /\ c[1] = c[Len(c)]
          /\ Range(c) \subseteq Nodes(g)
          /\ \A k \in 1..(Len(c) - 1) : c[k + 1] \in DependsOnSet(g, c[k])

\* C31 witness: a cycle of two nodes is reported whose first address is not the root the
\* traversal started from, so that the path is longer than the slice that is recorded.
C31_Witness ==
  LET g == dependencyGraph
      cycles == detectCircularReferences(g)
  IN /\ g.keys # <<>>
     /\ \E i \in 1..Len(cycles) :
          /\ Len(cycles[i]) = 3
          /\ Head(g.keys) \notin Range(cycles[i])
          /\ cycles[i][1] \in Upstream(g, Head(g.keys))

\* ---------------------------------------------------------------- C32
RECURSIVE SumOver(_, _)
\* The sum of f[s[i]] over the entries of the sequence s.
SumOver(f, s) == IF s = <<>> THEN 0 ELSE f[Head(s)] + SumOver(f, Tail(s))

\* C32: in every reachable state and for every address X, the call markDirty(X) ends; it
\* iterates the dependents of no node twice and only of nodes that were clean before the
\* call and are dirty after it; the number of markDirty invocations is one plus the
\* number of dependents of the nodes it flipped (a node reached again is returned from at
\* once); and the graph and the queue are those of markDirty(X).
C32_MarkDirtyVisitsOnce ==
  \A X \in Addr :
    LET g == dependencyGraph
        tr == markDirtyTraced([g |-> g, dq |-> dirtyQueue, calls |-> <<>>, expanded |-> <<>>], X)
        fanout == [y \in Nodes(g) |-> Len(g.node[y].dependents)]
    IN /\ NoDuplicates(tr.expanded)
       /\ \A y \in Range(tr.expanded) :
            Has(g, y) /\ ~g.node[y].isDirty /\ tr.g.node[y].isDirty
       /\ Len(tr.calls) = 1 + SumOver(fanout, tr.expanded)
       /\ [g |-> tr.g, dq |-> tr.dq] = markDirty(g, dirtyQueue, X)

\* C32 witness: a clean node on a cycle whose markDirty call comes back to it, and is
\* invoked more often than it flips nodes.
C32_Witness ==
  LET g == dependencyGraph
  IN \E X \in Nodes(g) :
       LET tr == markDirtyTraced([g |-> g, dq |-> dirtyQueue, calls |-> <<>>,
                                  expanded |-> <<>>], X)
       IN /\ OnCycle(g, X)
          /\ ~g.node[X].isDirty
          /\ Len(tr.expanded) >= 1
          /\ Len(tr.calls) > Len(tr.expanded)
          /\ tr.calls[Len(tr.calls)] = X

\* ---------------------------------------------------------------- C33
\* C33 (as claimed): once abort() has been called while the recalculate call p was
\* suspended, p invokes the evaluator for no further cell, also when another recalculate
\* call was started before p resumed.
C33_AbortCancelsDespiteSecondPass ==
  [][\A p \in Passes :
       (Resumes(p) /\ AbortedDuring(p)) => pass'[p].evalLog = pass[p].evalLog]_vars

\* ---------------------------------------------------------------- C34
\* C34: a registerCell(X, L) step adds exactly the missing nodes among X and the addresses
\* of L, each dirty and, unless it is X, without dependencies; it changes no existing
\* node's isDirty flag, not the dirty queue and not the store.  And no step of a
\* recalculate call invokes the evaluator for a node without content in the store or
\* gives that address a store entry, and the call rejects for no other reason than the
\* iteration ceiling.
C34_PlaceholderLeaves ==
  [][/\ \A a \in Addr : \A l \in DepLists :
          RegisterCell(a, l) =>
            LET g == dependencyGraph
                h == dependencyGraph'
            IN /\ Nodes(h) = Nodes(g) \cup {a} \cup Range(l)
               /\ \A y \in Nodes(g) : h.node[y].isDirty = g.node[y].isDirty
               /\ \A y \in Nodes(h) \ Nodes(g) :
                    /\ h.node[y].isDirty
                    /\ y # a => h.node[y].dependsOn = <<>>
               /\ dirtyQueue' = dirtyQueue
               /\ cells' = cells
     /\ \A p \in Passes :
          (Recalculate(p) \/ Resumes(p)) =>
            /\ DOMAIN cells' = DOMAIN cells
            /\ \A y \in Nodes(dependencyGraph) \ DOMAIN cells :
                 /\ y \notin Range(pass'[p].evalLog)
                 /\ dependencyGraph'.node[y] = dependencyGraph.node[y]
            /\ pass'[p].outcome \in Rejections =>
                 pass'[p].stats.calculatedCells > maxIterations]_vars

\* C34 witness: a recalculate call has resolved after evaluating a cell that depends on
\* a placeholder without content, which is still a dirty leaf without a store entry.
C34_Witness ==
  LET g == dependencyGraph
  IN \E p \in Passes : \E x, y \in Nodes(g) :
       /\ pass[p].outcome = "resolved"
       /\ y \in DependsOnSet(g, x)
       /\ x \in Range(pass[p].evalLog)
       /\ y \notin DOMAIN cells
       /\ g.node[y].dependsOn = <<>>
       /\ g.node[y].isDirty
       /\ IndexOf(g.keys, x) < IndexOf(g.keys, y)
       /\ cells[x].error = "none"

\* ---------------------------------------------------------------- C35
\* C35: a recalculate call started on a graph with a cycle leaves the keys of the store as
\* they are and changes no entry whose address is in none of the detected cycles; the
\* entries of the addresses in a detected cycle get the circular-reference display value
\* and error and keep their other fields.
C35_CycleAbortWritesCycleCellsOnly ==
  [][\A p \in Passes :
       (StartPass(p) /\ Cyclic(dependencyGraph)) =>
         LET inCycle == Range(Flat(detectCircularReferences(dependencyGraph)))
         IN /\ DOMAIN cells' = DOMAIN cells
            /\ \A a \in DOMAIN cells \ inCycle : cells'[a] = cells[a]
            /\ \A a \in DOMAIN cells \cap inCycle :
                 cells'[a] = [cells[a] EXCEPT !.displayValue = "#CIRCULAR!",
                                              !.error = "Circular reference detected"]]_vars

\* C35 witness: a recalculate call has returned on a graph with a cycle, a cell of the
\* cycle shows the circular-reference value and a cell evaluated by an earlier call still
\* shows its value.
C35_Witness ==
  /\ Cyclic(dependencyGraph)
  /\ pass[2].outcome = "resolved"
  /\ pass[2].stats.circularReferences # <<>>
  /\ \E a, b \in DOMAIN cells :
       /\ cells[a].displayValue = "#CIRCULAR!"
       /\ OnCycle(dependencyGraph, a)
       /\ cells[b].displayValue \in Values
       /\ b \in Range(pass[1].evalLog)

\* ---------------------------------------------------------------- C36
\* The step in which the recalculate call p invokes the evaluator.
Invokes(p) == (StartPass(p) \/ Resumes(p)) /\ pass'[p].pc = "awaiting"
\* removeCell(a) was called while the recalculate call p was suspended.
RemovedDuring(p, a) == Call("removeCell", a) \in Range(pass[p].during)

\* C36 (as claimed): a recalculate call invokes the evaluator at most once per address,
\* only for addresses that were nodes when it started, and never for an address whose
\* node was removed earlier while the call was suspended.
C36_RemovedNeverEvaluated ==
  [][\A p \in Passes :
       Invokes(p) =>
         /\ NoDuplicates(pass'[p].evalLog)
         /\ Range(pass'[p].evalLog) \subseteq Range(pass'[p].order)
         /\ ~RemovedDuring(p, pass'[p].order[pass'[p].pos])]_vars

\* C36 (amended): a recalculate call invokes the evaluator at most once per address, only
\* for addresses that were nodes when it started, and only for an address that at that
\* moment is a dirty node with content; so an address removed while the call was
\* suspended is evaluated later only if it was registered again meanwhile.
C36_EvaluatedOnceWhilePresent ==
  [][\A p \in Passes :
       Invokes(p) =>
         LET a == pass'[p].order[pass'[p].pos]
         IN /\ NoDuplicates(pass'[p].evalLog)
            /\ Range(pass'[p].evalLog) \subseteq Range(pass'[p].order)
            /\ Has(dependencyGraph, a)
            /\ Has(dependencyGraph', a)
            /\ a \in DOMAIN cells
            /\ dependencyGraph.node[a].isDirty
            /\ (RemovedDuring(p, a) /\ ~StartPass(p)) =>
                 \E i, j \in 1..Len(pass[p].during) :
                   /\ i < j
                   /\ pass[p].during[i] = Call("removeCell", a)
                   /\ pass[p].during[j].op = "registerCell"]_vars

\* C36 witness: a recalculate call has resolved although, while it was suspended, a node
\* later in its order was removed and another address was registered for the first time;
\* neither was evaluated.
C36_Witness ==
  \E p \in Passes : \E a, b \in Addr :
    /\ pass[p].outcome = "resolved"
    /\ Call("removeCell", a) \in Range(pass[p].during)
    /\ Call("registerCell", b) \in Range(pass[p].during)
    /\ a \in Range(pass[p].order) /\ a \in DOMAIN cells
    /\ b \notin Range(pass[p].order) /\ b \in DOMAIN cells
    /\ Has(dependencyGraph, b) /\ dependencyGraph.node[b].isDirty
    /\ a \notin Range(pass[p].evalLog)
    /\ b \notin Range(pass[p].evalLog)
    /\ pass[p].evalLog # <<>>

\* ---------------------------------------------------------------- C37
\* C37: in every reachable state every address in the dirty queue is the address of a
\* node of the graph.
C37_QueueHoldsNodesOnly == dirtyQueue \subseteq Nodes(dependencyGraph)

\* C37 witness: removeCell has removed a node that an earlier pass had evaluated and a
\* markDirty call had queued together with its dependent, which is still queued.
C37_Witness ==
  /\ lastCall.op = "removeCell"
  /\ lastCall.address \in Range(pass[1].evalLog)
  /\ ~Has(dependencyGraph, lastCall.address)
  /\ lastCall.address \notin dirtyQueue
  /\ dirtyQueue # {}

\* ---------------------------------------------------------------- C38
\* The graph without its per-node flags: the keys in insertion order and both edge sets
\* of every node.
Structure(g) ==
  [keys |-> g.keys,
   edges |-> [y \in Nodes(g) |->
                [dependsOn |-> g.node[y].dependsOn, dependents |-> g.node[y].dependents]]]

\* A suspended call resumes: the evaluator returned a plain or a spilling result, or threw.
ResumesAnyhow(p) ==
  \/ \E r \in PlainResults \cup SpillResults : EvaluatorReturns(p, r)
  \/ EvaluatorThrows(p)

\* C38: no step of a recalculate call, whichever way the call ends, changes the node set,
\* the insertion order or any node's dependsOn or dependents set; in particular a store
\* entry that markSpillRange writes or creates gets no node.
C38_RecalculateKeepsStructure ==
  [][\A p \in Passes :
       (StartPass(p) \/ ResumesAnyhow(p)) =>
         Structure(dependencyGraph') = Structure(dependencyGraph)]_vars

\* C38 witness: a recalculate call has resolved after a spill created a store entry for an
\* address that is no node, and another call has rejected.
C38_Witness ==
  /\ \E p \in Passes : pass[p].outcome \in Rejections
  /\ \E p \in Passes :
       /\ pass[p].outcome = "resolved"
       /\ pass[p].evalLog # <<>>
  /\ \E a \in DOMAIN cells :
       /\ cells[a].isSpill
       /\ ~Has(dependencyGraph, a)

\* ---------------------------------------------------------------- C39
\* The engine's own fields, without the caller's store and the model's bookkeeping.
engineState ==
  <<dependencyGraph, dirtyQueue, calculationOrder, maxIterations, isCalculating, abortController>>

\* C39: abort() called while no recalculate call is in flight changes no field of the
\* engine and nothing of the store, and no call is cancelled by an abort() that came
\* before it started: a step of a call rejects with the abort error only when abort() was
\* called while that call was suspended.
C39_IdleAbortForgotten ==
  [][/\ (Abort /\ NoPassInFlight) => UNCHANGED <<engineState, cells>>
     /\ \A p \in Passes :
          (pass[p].outcome # "rejected: aborted" /\ pass'[p].outcome = "rejected: aborted")
            => AbortedDuring(p)]_vars

\* C39 witness: abort() has just been called before any recalculate call was made, a
\* node is dirty with content, and the caller can still start the next call.
C39_Witness ==
  /\ lastCall.op = "abort"
  /\ \A p \in Passes : pass[p].outcome = "none" /\ pass[p].pc = "idle"
  /\ abortController = "undefined"
  /\ ops < MaxOps
  /\ \E a \in Nodes(dependencyGraph) : a \in DOMAIN cells /\ dependencyGraph.node[a].isDirty

\* ---------------------------------------------------------------- C40
\* C40: on every reachable graph and for all nodes X and Y, Y is in
\* getDependencyChain(X).upstream exactly when X is in getDependencyChain(Y).downstream,
\* and Y is in getDependencies(X) exactly when X is in getDependents(Y).
C40_UpstreamDownstreamDual ==
  \A X, Y \in Nodes(dependencyGraph) :
    /\ SetHas(getDependencyChain(dependencyGraph, X).upstream, Y)
         <=> SetHas(getDependencyChain(dependencyGraph, Y).downstream, X)
    /\ SetHas(getDependencies(dependencyGraph, X), Y)
         <=> SetHas(getDependents(dependencyGraph, Y), X)

\* C40 witness: a graph where some node is upstream of another without being one of its
\* direct dependencies, and some pair of nodes is related in neither direction.
C40_Witness ==
  /\ \E X, Y \in Nodes(dependencyGraph) :
       /\ SetHas(getDependencyChain(dependencyGraph, X).upstream, Y)
       /\ SetHas(getDependencyChain(dependencyGraph, Y).downstream, X)
       /\ ~SetHas(getDependencies(dependencyGraph, X), Y)
  /\ \E X, Y \in Nodes(dependencyGraph) :
       /\ X # Y
       /\ ~SetHas(getDependencyChain(dependencyGraph, X).upstream, Y)
       /\ ~SetHas(getDependencyChain(dependencyGraph, Y).upstream, X)

====
